---- MODULE Spec2Model ----
(***************************************************************************)
(* Model of langgraph-bigtool: the tool-selection graph                    *)
(* (agent -> select_tools | tools -> agent), its selected_tool_ids reducer *)
(* and its routing function.                                               *)
(***************************************************************************)
EXTENDS Integers, Sequences, FiniteSets, TLC

\* ---------------------------------------------------------------- bounds
\* tool calls the model makes in one graph invocation, over all its answers
MaxToolCalls == 3
\* length of the sequences the reducer is applied to in SpecReducer
MaxLen == 3
\* tool calls of the AI message shouldContinue is applied to in SpecRouting
MaxRouteCalls == 3

\* indexTools calls made on one store
MaxPasses == 2

\* ------------------------------------------------------ program constants
\* createAgent: const { limit = 2, ... } = options
limit == 2

\* ------------------------------------------------------------- utilities
Range(s) == {s[i] : i \in DOMAIN s}

\* all sequences over S of length 0..n
SeqsUpTo(S, n) == UNION {[1..k -> S] : k \in 0..n}

IsUnique(s) == \A i, j \in DOMAIN s : s[i] = s[j] => i = j

IsPrefix(s, t) == Len(s) <= Len(t) /\ SubSeq(t, 1, Len(s)) = s

\* spread of a list of lists: [...a, ...b, ...]
RECURSIVE Flatten(_)
Flatten(ss) == IF ss = <<>> THEN <<>> ELSE Head(ss) \o Flatten(Tail(ss))

\* the value JavaScript gives a missing property
Undefined == "<undefined>"

\* ------------------------------------------------------------ the reducer
\* a reducer that appends without looking at left
addNewNoFilter(left, right) == left \o right

\* a reducer that replaces the value (LangGraph's default channel behaviour)
addNewReplace(left, right) == right

\* a reducer that also removes duplicates inside right
RECURSIVE addNewDedup(_, _)
addNewDedup(left, right) ==
    IF right = <<>> THEN left
    ELSE addNewDedup(IF Head(right) \in Range(left) THEN left
                     ELSE Append(left, Head(right)), Tail(right))

\* types.ts: addNew
addNew(left, right) ==
    LET existing == Range(left)
        newIds == SelectSeq(right, LAMBDA id : id \notin existing)
    IN  left \o newIds

\* ----------------------------------------------------------- the registry
\* the name of the retrieval meta-tool (tools/retrieve.ts)
RetrieveTool == "retrieve_tools"

\* A registry is a JavaScript object: an insertion-ordered list of
\* (key, tool) with unique keys.  A tool is identified by its name.
\* The third key differs from its tool's name (a registry passed as a record).
ToolRegistry ==
    << [key |-> "add",      tool |-> "add"],
       [key |-> "multiply", tool |-> "multiply"],
       [key |-> "sqrt_id",  tool |-> "sqrt"] >>

\* the defaultTools a caller may configure; <<>> stands for both an absent
\* defaultTools and an empty one (callModel and toolNode treat them alike)
DefaultRegistries ==
    { <<>>,
      << [key |-> "calculator", tool |-> "calculator"],
         [key |-> "add",        tool |-> "add"] >> }

Keys(reg) == {reg[i].key : i \in DOMAIN reg}

\* reg[id]
Lookup(reg, id) ==
    IF id \in Keys(reg)
    THEN (CHOOSE e \in Range(reg) : e.key = id).tool
    ELSE Undefined

\* Object.values(reg)
ObjectValues(reg) == [i \in DOMAIN reg |-> reg[i].tool]

\* ids a retrieval can return: a registry key and an id unknown to the registry
Ids == {"sqrt_id", "ghost"}

\* tool names a model may put in a tool call
CallNames == {RetrieveTool, "sqrt", "calculator"}

\* what one call of the retrieval function can return (a custom
\* retrieve_tools_function is free to repeat an id)
RetrievalResults == SeqsUpTo(Ids, limit)

\* the selected_tool_ids a caller may pass in the input of an invocation
InitialSelections == {s \in SeqsUpTo(Ids, 1) : IsUnique(s)}

\* ------------------------------------------------------------- messages
\* A message is a record with a type; an AI message normally carries
\* tool_calls (a list of [name, id]); a record without the field models
\* tool_calls === undefined.
HumanMessage == [type |-> "human"]

AIMessage(calls) == [type |-> "ai", tool_calls |-> calls]

ToolMessage(content, tool_call_id, name) ==
    [type |-> "tool", content |-> content, tool_call_id |-> tool_call_id, name |-> name]

isAIMessage(m) == m.type = "ai"

\* langgraph's END
END == "__end__"

\* the tool calls of a model response: call i of turn t gets the id 10*t + i
MakeCalls(names, t) == [i \in 1..Len(names) |-> [name |-> names[i], id |-> 10 * t + i]]

\* ---------------------------------------------------------------- routing
\* a router that only looks at the first tool call
shouldContinueFirstOnly(state) ==
    IF "messages" \notin DOMAIN state \/ Len(state.messages) = 0 THEN END
    ELSE LET lastMessage == state.messages[Len(state.messages)] IN
         IF ~isAIMessage(lastMessage) THEN END
         ELSE IF "tool_calls" \notin DOMAIN lastMessage \/ Len(lastMessage.tool_calls) = 0 THEN END
         ELSE IF lastMessage.tool_calls[1].name = RetrieveTool THEN "select_tools"
         ELSE "tools"

\* a router that ends the turn when nothing is selected (what the comment
\* in routing.ts first suggests)
shouldContinueEndIfNoneSelected(state) ==
    IF "messages" \notin DOMAIN state \/ Len(state.messages) = 0 THEN END
    ELSE LET lastMessage == state.messages[Len(state.messages)] IN
         IF ~isAIMessage(lastMessage) THEN END
         ELSE IF "tool_calls" \notin DOMAIN lastMessage \/ Len(lastMessage.tool_calls) = 0 THEN END
         ELSE IF \E i \in DOMAIN lastMessage.tool_calls :
                    lastMessage.tool_calls[i].name = RetrieveTool THEN "select_tools"
         ELSE IF "selected_tool_ids" \notin DOMAIN state \/ Len(state.selected_tool_ids) = 0
              THEN END
         ELSE "tools"

\* a router that tests tool_calls for undefined only, not for an empty list
shouldContinueNoEmptyCheck(state) ==
    IF "messages" \notin DOMAIN state \/ Len(state.messages) = 0 THEN END
    ELSE LET lastMessage == state.messages[Len(state.messages)] IN
         IF ~isAIMessage(lastMessage) THEN END
         ELSE IF "tool_calls" \notin DOMAIN lastMessage THEN END
         ELSE IF \E i \in DOMAIN lastMessage.tool_calls :
                    lastMessage.tool_calls[i].name = RetrieveTool THEN "select_tools"
         ELSE "tools"

\* nodes/routing.ts: shouldContinue.  state is a Partial<BigToolState>: a
\* record that may lack either field.
shouldContinue(state) ==
    IF "messages" \notin DOMAIN state \/ Len(state.messages) = 0 THEN END
    ELSE LET lastMessage == state.messages[Len(state.messages)] IN
         IF ~isAIMessage(lastMessage) THEN END
         ELSE IF "tool_calls" \notin DOMAIN lastMessage \/ Len(lastMessage.tool_calls) = 0 THEN END
         ELSE LET hasRetrieveTools == \E i \in DOMAIN lastMessage.tool_calls :
                                          lastMessage.tool_calls[i].name = RetrieveTool
              IN  IF hasRetrieveTools THEN "select_tools"
                  ELSE IF "selected_tool_ids" \notin DOMAIN state
                          \/ Len(state.selected_tool_ids) = 0
                       THEN "tools"
                       ELSE "tools"

\* ------------------------------------------------------- tool visibility
\* selected_tool_ids.map(id => toolRegistry[id]).filter(Boolean)
SelectedTools(ids) ==
    SelectSeq([i \in DOMAIN ids |-> Lookup(ToolRegistry, ids[i])],
              LAMBDA t : t # Undefined)

\* a binding that hands the model the whole registry
BoundToolsWholeRegistry(ids, defaultRegistry) ==
    <<RetrieveTool>> \o ObjectValues(defaultRegistry) \o ObjectValues(ToolRegistry)

\* a binding that forgets the default tools
BoundToolsNoDefaults(ids, defaultRegistry) ==
    <<RetrieveTool>> \o SelectedTools(ids)

\* nodes/agent.ts: callModel, the list handed to bindTools
BoundTools(ids, defaultRegistry) ==
    LET selectedTools == SelectedTools(ids)
        defaultTools == ObjectValues(defaultRegistry)
    IN  <<RetrieveTool>> \o defaultTools \o selectedTools

\* a tool node built over the whole registry
NodeToolsWholeRegistry(ids, defaultRegistry) ==
    <<RetrieveTool>> \o ObjectValues(defaultRegistry) \o ObjectValues(ToolRegistry)

\* graph.ts: createAgent.toolNode, the list handed to new ToolNode
NodeTools(ids, defaultRegistry) ==
    LET selectedTools == SelectedTools(ids)
        toolsToUse == IF Len(selectedTools) > 0 THEN selectedTools ELSE <<>>
        defaultToolsList == ObjectValues(defaultRegistry)
    IN  <<RetrieveTool>> \o defaultToolsList \o toolsToUse

\* ------------------------------------------------------------------ state
VARIABLES
    messages,             \* BigToolState.messages
    selected_tool_ids,    \* BigToolState.selected_tool_ids
    pc,                   \* the graph node to run next ("route": the conditional edge)
    defaultToolRegistry,  \* createAgent's defaultToolRegistry
    turns,                \* model calls made so far
    toolCallsMade,        \* tool calls the model has made so far
    prevNode,             \* the node that ran last
    boundTools,           \* the list handed to bindTools by the last callModel
    nodeTools,            \* the list handed to ToolNode by the last toolNode
    executed,             \* names of the tools the last toolNode ran
    initial_ids,          \* selected_tool_ids of the invocation's input
    retrievedEver,        \* every id a retrieval of this conversation returned
    lastRetrieved,        \* newToolIds of the last selectTools
    selBefore,            \* selected_tool_ids before the last node ran
    left, right,          \* arguments of the reducer (SpecReducer)
    merged, mergedAgain,  \* addNew(left, right) and addNew(merged, right)
    stage,                \* reducer applications done (SpecReducer)
    routeState,           \* argument of shouldContinue (SpecRouting)
    routeResult,          \* its result, "none" before the call
    store,                \* createAgent input: "given" or "none"
    retrieve_tools_function, \* options: "custom", or "default" when left out
    error,                \* message of the error the invocation rejected with
    searchFailed,         \* ids of the tool calls whose store search threw in
                          \* the latest select_tools step
    twLeft,               \* selected_tool_ids before two retrievals (SpecTwoMerges)
    twFirst, twSecond,    \* what the first and the second retrieval return
    twAfterFirst,         \* addNew(twLeft, twFirst)
    twAfterSecond,        \* addNew(twAfterFirst, twSecond)
    twAtOnce,             \* addNew(twLeft, twFirst followed by twSecond)
    twStage,              \* steps of SpecTwoMerges done
    storeKind,            \* class of the tool store (SpecStore)
    redis,                \* the redis keys the store has set: [key, value]
    vectorStore,          \* documents of the vector store, in the order added
    toolMetadata,         \* the toolMetadata Map: [key, value] in insertion order
    passes,               \* indexTools calls made
    lastPass,             \* report of the latest indexTools call
    prevPass,             \* report of the one before
    lastSearch,           \* the search or retrieval just made
    conKind,              \* class of the stores of SpecConcurrent
    conRegistry,          \* the registry both processes index
    conRedis,             \* the redis keys they share
    conIndex,             \* the redis vector index they share
    conMemory,            \* each process's own memory vector store
    conSnapshot,          \* what each process's batch read found
    conPc,                \* where each process's pass is
    isConnected,          \* the store's isConnected field (SpecCache)
    lastOp,               \* the store method that ran last
    prevOp,               \* the one that ran before it
    cleared,              \* keys.length of the latest clearTools call
    putPc,                \* where a put call of RedisVectorBaseStore is
    putItem,              \* the [key, tool] that call is putting
    puts,                 \* put calls made
    agent,                \* how createAgent ended (SpecCreate)
    agentTools,           \* the tools createAgent was given, as a registry
    agentDefaultTools,    \* the defaultTools it was given, as a registry
    embDocuments,         \* the texts handed to embedDocuments (SpecEmbed)
    embReturned,          \* what embedDocuments did: threw, or the array returned
    embStored,            \* per tool, the embedding the pass cached and indexed
    embStage,             \* where the pass of SpecEmbed is
    sharedRedis,          \* the redis two stores share (SpecShared)
    indexes,              \* per indexName, the documents of that vector index
    sharedOp,             \* the last operation: the store that made it, its name
    sharedOps,            \* operations made
    deleted,              \* keys deleted and not put or indexed since (SpecDelete)
    callPc,               \* per caller, where its call is (SpecConnect)
    callOp,               \* per caller, the method it calls
    redisClient,          \* this.redisClient: the client created last, 0 for none
    clients,              \* number of clients created by createClient
    connectedClients,     \* the clients whose connect() was called
    usedClient            \* per caller, the client its operation ran on

graphVars == <<messages, selected_tool_ids, pc, defaultToolRegistry, turns,
               toolCallsMade, prevNode,
               boundTools, nodeTools, executed, initial_ids, retrievedEver,
               lastRetrieved, selBefore, store, retrieve_tools_function,
               searchFailed, error>>

reducerVars == <<left, right, merged, mergedAgain, stage>>

routingVars == <<routeState, routeResult>>

twoMergeVars == <<twLeft, twFirst, twSecond, twAfterFirst, twAfterSecond, twAtOnce,
                  twStage>>

storeVars == <<storeKind, redis, vectorStore, toolMetadata, passes, lastPass, prevPass,
               lastSearch>>

concurrentVars == <<conKind, conRegistry, conRedis, conIndex, conMemory, conSnapshot,
                    conPc>>

cacheVars == <<isConnected, lastOp, prevOp, cleared, putPc, putItem, puts>>

createVars == <<agent, agentTools, agentDefaultTools>>

embedVars == <<embDocuments, embReturned, embStored, embStage>>

sharedVars == <<sharedRedis, indexes, sharedOp, sharedOps>>

deleteVars == <<deleted>>

connectVars == <<callPc, callOp, redisClient, clients, connectedClients, usedClient>>

\* the variables of the smaller specifications
otherVars == <<embedVars, sharedVars, deleteVars, connectVars>>

vars == <<graphVars, reducerVars, routingVars, twoMergeVars, storeVars,
          concurrentVars, cacheVars, createVars, otherVars>>

\* what an action of one part of the model leaves alone
nonGraphVars == <<reducerVars, routingVars, twoMergeVars, storeVars, concurrentVars,
                  cacheVars, createVars, otherVars>>

nonReducerVars == <<graphVars, routingVars, twoMergeVars, storeVars, concurrentVars,
                    cacheVars, createVars, otherVars>>

nonRoutingVars == <<graphVars, reducerVars, twoMergeVars, storeVars, concurrentVars,
                    cacheVars, createVars, otherVars>>

nonTwoMergeVars == <<graphVars, reducerVars, routingVars, storeVars, concurrentVars,
                     cacheVars, createVars, otherVars>>

nonConcurrentVars == <<graphVars, reducerVars, routingVars, twoMergeVars, storeVars,
                       cacheVars, createVars, otherVars>>

nonStoreVars == <<graphVars, reducerVars, routingVars, twoMergeVars, concurrentVars,
                  cacheVars, createVars, otherVars>>

\* what a step of SpecCache, which writes the store's and the cache's
\* variables, leaves alone
nonCacheVars == <<graphVars, reducerVars, routingVars, twoMergeVars, concurrentVars,
                  createVars, otherVars>>

\* what createAgent, which calls the store, leaves alone
nonCreateVars == <<graphVars, reducerVars, routingVars, twoMergeVars, concurrentVars,
                   otherVars>>

\* what a step of SpecEmbed leaves alone
nonEmbedVars == <<graphVars, reducerVars, routingVars, twoMergeVars, storeVars,
                  concurrentVars, cacheVars, createVars, sharedVars, deleteVars,
                  connectVars>>

\* what a step of SpecShared leaves alone
nonSharedVars == <<graphVars, reducerVars, routingVars, twoMergeVars, storeVars,
                   concurrentVars, cacheVars, createVars, embedVars, deleteVars,
                   connectVars>>

\* what a step of SpecDelete, which works on a store, leaves alone
nonDeleteVars == <<graphVars, reducerVars, routingVars, twoMergeVars, concurrentVars,
                   cacheVars, createVars, embedVars, sharedVars, connectVars>>

\* what a step of SpecConnect, which sets isConnected, leaves alone
nonConnectVars == <<graphVars, reducerVars, routingVars, twoMergeVars, storeVars,
                    concurrentVars, createVars, embedVars, sharedVars, deleteVars,
                    lastOp, prevOp, cleared, putPc, putItem, puts>>

\* graph.ts: createAgent, the store and options.retrieve_tools_function of
\* its input.  A custom retrieval function never looks at the store, so it is
\* paired with one store value only.
AgentInputs == {<<"given", "default">>, <<"none", "default">>, <<"none", "custom">>}

\* the state of a graph invocation with input
\* { messages: [HumanMessage], selected_tool_ids: ids }: every channel starts
\* from its default and the input goes through the channel's reducer
InitGraph ==
    /\ defaultToolRegistry \in DefaultRegistries
    /\ initial_ids \in InitialSelections
    /\ messages = <<HumanMessage>>
    /\ selected_tool_ids = addNew(<<>>, initial_ids)
    /\ pc = "agent"
    /\ turns = 0
    /\ toolCallsMade = 0
    /\ prevNode = "start"
    /\ boundTools = <<>>
    /\ nodeTools = <<>>
    /\ executed = {}
    /\ retrievedEver = {}
    /\ lastRetrieved = <<>>
    /\ selBefore = selected_tool_ids
    /\ \E input \in AgentInputs :
          /\ store = input[1]
          /\ retrieve_tools_function = input[2]
    /\ searchFailed = {}
    /\ error = ""

IdleReducer ==
    /\ left = <<>> /\ right = <<>> /\ merged = <<>> /\ mergedAgain = <<>>
    /\ stage = 0

IdleRouting ==
    /\ routeState = [messages |-> <<>>, selected_tool_ids |-> <<>>]
    /\ routeResult = "none"

\* the report before any pass
NoPass ==
    [registry |-> <<>>, result |-> "none", hits |-> <<>>, misses |-> <<>>,
     embedded |-> <<>>, calls |-> [reads |-> 0, provider |-> 0, index |-> 0, writes |-> 0],
     redisBefore |-> {},
     listedBefore |-> {},
     documentsBefore |-> 0, expired |-> FALSE]

\* the record before any search
NoSearch ==
    [via |-> "none", query |-> "", limit |-> 0, threw |-> FALSE,
     backendCalled |-> FALSE, items |-> <<>>, toolIds |-> <<>>]

IdleStore ==
    /\ storeKind = "HNSWLibStore"
    /\ redis = {}
    /\ vectorStore = <<>>
    /\ toolMetadata = <<>>
    /\ passes = 0
    /\ lastPass = NoPass
    /\ prevPass = NoPass
    /\ lastSearch = NoSearch

\* no put call under way
NoItem == [key |-> "", tool |-> [name |-> "", description |-> ""]]

IdleCache ==
    /\ isConnected = TRUE
    /\ lastOp = "none"
    /\ prevOp = "none"
    /\ cleared = 0
    /\ putPc = "idle"
    /\ putItem = NoItem
    /\ puts = 0

\* no embedDocuments call made
NotEmbedded == [threw |-> FALSE, error |-> "", embeddings |-> <<>>]

IdleEmbed ==
    /\ embDocuments = <<>>
    /\ embReturned = NotEmbedded
    /\ embStored = <<>>
    /\ embStage = "idle"

\* the two stores' indexNames
IndexNames == {"tools-a", "tools-b"}

\* no operation made
NoSharedOp == [by |-> "none", op |-> "none"]

IdleShared ==
    /\ sharedRedis = {}
    /\ indexes = [name \in IndexNames |-> <<>>]
    /\ sharedOp = NoSharedOp
    /\ sharedOps = 0

IdleDelete == deleted = {}

\* the callers of SpecConnect
Callers == {1, 2}

IdleConnect ==
    /\ callPc = [c \in Callers |-> "idle"]
    /\ callOp = [c \in Callers |-> "none"]
    /\ redisClient = 0
    /\ clients = 0
    /\ connectedClients = {}
    /\ usedClient = [c \in Callers |-> 0]

IdleOther == IdleEmbed /\ IdleShared /\ IdleDelete /\ IdleConnect

IdleCreate ==
    /\ agent = "none"
    /\ agentTools = <<>>
    /\ agentDefaultTools = <<>>

IdleConcurrent ==
    /\ conKind = "RedisVectorBaseStore"
    /\ conRegistry = <<>>
    /\ conRedis = {}
    /\ conIndex = <<>>
    /\ conMemory = <<>>
    /\ conSnapshot = <<>>
    /\ conPc = <<>>

IdleTwoMerges ==
    /\ twLeft = <<>> /\ twFirst = <<>> /\ twSecond = <<>>
    /\ twAfterFirst = <<>> /\ twAfterSecond = <<>> /\ twAtOnce = <<>>
    /\ twStage = 0

Init ==
    InitGraph /\ IdleReducer /\ IdleRouting /\ IdleTwoMerges /\ IdleStore
        /\ IdleConcurrent /\ IdleCache /\ IdleCreate /\ IdleOther

lastMessage == messages[Len(messages)]

\* nodes/agent.ts: callModel (wrapped by callModelWithConfig).  The model's
\* answer is any AI message whose tool calls fit the budget; the state update
\* { messages: [response] } leaves selected_tool_ids alone.
CallModel ==
    /\ pc = "agent"
    /\ \E names \in SeqsUpTo(CallNames, MaxToolCalls - toolCallsMade) :
          /\ messages' = Append(messages, AIMessage(MakeCalls(names, turns + 1)))
          /\ toolCallsMade' = toolCallsMade + Len(names)
    /\ boundTools' = BoundTools(selected_tool_ids, defaultToolRegistry)
    /\ turns' = turns + 1
    /\ prevNode' = "agent"
    /\ selBefore' = selected_tool_ids
    /\ pc' = "route"
    /\ UNCHANGED <<selected_tool_ids, defaultToolRegistry, nodeTools, executed,
                   initial_ids, retrievedEver, lastRetrieved, store,
                   retrieve_tools_function, searchFailed, error>>
    /\ UNCHANGED nonGraphVars

\* graph.ts: addConditionalEdges("agent", shouldContinue, ...)
Route ==
    /\ pc = "route"
    /\ pc' = shouldContinue([messages |-> messages,
                             selected_tool_ids |-> selected_tool_ids])
    /\ UNCHANGED <<messages, selected_tool_ids, defaultToolRegistry, turns, toolCallsMade,
                   prevNode, boundTools, nodeTools, executed, initial_ids, retrievedEver,
                   lastRetrieved, selBefore, store, retrieve_tools_function,
                   searchFailed, error>>
    /\ UNCHANGED nonGraphVars

\* a reply that always announces tools
RetrievalContentAlwaysFound(retrievedIds) ==
    [found |-> TRUE, count |-> Len(retrievedIds), listed |-> SelectedTools(retrievedIds)]

\* the text selectTools answers a retrieve_tools call with
RetrievalContent(retrievedIds) ==
    LET toolDescriptions == SelectedTools(retrievedIds)
    IN  IF toolDescriptions # <<>>
        THEN [found |-> TRUE, count |-> Len(retrievedIds), listed |-> toolDescriptions]
        ELSE [found |-> FALSE, count |-> 0, listed |-> <<>>]

\* utils/retrieval.ts: the message of the error the default retrieval
\* function throws without a store
StoreIsRequired == "Store is required for default retrieval function"

\* a retrieval function that never asks for its store
StoreNeverRequired(st, fn) == FALSE

\* utils/retrieval.ts: `if (!store) throw`, the first statement of the
\* default retrieval function, outside its try block
StoreRequired(st, fn) == fn = "default" /\ st = "none"

\* utils/retrieval.ts: getDefaultRetrievalTool, outcome of a store search
\* that threw
SearchFailed == [threw |-> TRUE, ids |-> <<>>]

\* utils/retrieval.ts: outcome of a call that returns toolIds
Returned(toolIds) == [threw |-> FALSE, ids |-> toolIds]

\* utils/retrieval.ts: what the retrieval function can do on one call.  The
\* default function with a store searches it and returns the ids found, or
\* catches the search's error; a custom function returns ids.
RetrievalOutcomes(st, fn) ==
    IF fn = "default" /\ st = "given"
    THEN {Returned(r) : r \in RetrievalResults} \cup {SearchFailed}
    ELSE {Returned(r) : r \in RetrievalResults}

\* utils/retrieval.ts: the ids the retrieval function returns, [] after a
\* caught error
RetrievedIds(outcome) == IF outcome.threw THEN <<>> ELSE outcome.ids

\* nodes/tools.ts: selectTools (wrapped by selectToolsWithConfig), followed by
\* the channel reducers and the edge select_tools -> agent.  res[i] is what
\* the retrieval function does for tool call i.  The default retrieval
\* function without a store throws on its first call: the node fails and the
\* invocation rejects.
SelectTools ==
    /\ pc = "select_tools"
    /\ IF Len(messages) = 0
          \/ ~isAIMessage(lastMessage)
          \/ "tool_calls" \notin DOMAIN lastMessage
          \/ Len(lastMessage.tool_calls) = 0
       THEN /\ UNCHANGED <<messages, selected_tool_ids, retrievedEver>>
            /\ lastRetrieved' = <<>>
            /\ searchFailed' = {}
            /\ UNCHANGED error
            /\ prevNode' = "select_tools"
            /\ selBefore' = selected_tool_ids
            /\ pc' = "agent"
       ELSE LET calls == lastMessage.tool_calls
                retrieveCalls == {i \in DOMAIN calls : calls[i].name = RetrieveTool}
            IN  IF retrieveCalls # {} /\ StoreRequired(store, retrieve_tools_function)
                THEN /\ pc' = "error"
                     /\ error' = StoreIsRequired
                     /\ UNCHANGED <<messages, selected_tool_ids, retrievedEver,
                                    lastRetrieved, searchFailed, prevNode, selBefore>>
                ELSE \E res \in [retrieveCalls ->
                                    RetrievalOutcomes(store, retrieve_tools_function)] :
                  LET retrievedIds == [i \in retrieveCalls |-> RetrievedIds(res[i])]
                      newToolIds ==
                          Flatten([i \in DOMAIN calls |->
                                      IF i \in retrieveCalls THEN retrievedIds[i]
                                      ELSE <<>>])
                      toolMessages ==
                          Flatten([i \in DOMAIN calls |->
                                      IF i \in retrieveCalls
                                      THEN <<ToolMessage(RetrievalContent(retrievedIds[i]),
                                                         calls[i].id, RetrieveTool)>>
                                      ELSE <<>>])
                  IN  /\ messages' = messages \o toolMessages
                      /\ selected_tool_ids' = addNew(selected_tool_ids, newToolIds)
                      /\ retrievedEver' = retrievedEver \cup Range(newToolIds)
                      /\ lastRetrieved' = newToolIds
                      /\ searchFailed' = {calls[i].id : i \in {j \in retrieveCalls :
                                                          res[j].threw}}
                      /\ UNCHANGED error
                      /\ prevNode' = "select_tools"
                      /\ selBefore' = selected_tool_ids
                      /\ pc' = "agent"
    /\ UNCHANGED <<defaultToolRegistry, turns, toolCallsMade, boundTools, nodeTools,
                   executed, initial_ids, store, retrieve_tools_function>>
    /\ UNCHANGED nonGraphVars

\* graph.ts: createAgent.toolNode, followed by the edge tools -> agent.  The
\* prebuilt ToolNode answers every tool call of the last AI message: it runs
\* the tool of that name if it was given one, else it answers with an error.
ToolNode ==
    /\ pc = "tools"
    /\ isAIMessage(lastMessage)
    /\ LET allTools == NodeTools(selected_tool_ids, defaultToolRegistry)
           calls == lastMessage.tool_calls
           outputs == [i \in DOMAIN calls |->
                          ToolMessage(IF calls[i].name \in Range(allTools)
                                      THEN "result" ELSE "error: tool not found",
                                      calls[i].id, calls[i].name)]
       IN  /\ nodeTools' = allTools
           /\ executed' = {calls[i].name : i \in {j \in DOMAIN calls :
                                                     calls[j].name \in Range(allTools)}}
           /\ messages' = messages \o outputs
    /\ prevNode' = "tools"
    /\ selBefore' = selected_tool_ids
    /\ pc' = "agent"
    /\ UNCHANGED <<selected_tool_ids, defaultToolRegistry, turns, toolCallsMade,
                   boundTools, initial_ids, retrievedEver, lastRetrieved, store,
                   retrieve_tools_function, searchFailed, error>>
    /\ UNCHANGED nonGraphVars

Next == CallModel \/ Route \/ SelectTools \/ ToolNode

Spec == Init /\ [][Next]_vars

\* ------------------------------------------------- the reducer on its own
\* ids the reducer is exercised with
ReducerIds == {"tool1", "tool2", "tool3"}

\* the graph at rest, for the specifications that exercise one function
IdleGraph ==
    /\ defaultToolRegistry = <<>>
    /\ initial_ids = <<>>
    /\ messages = <<>>
    /\ selected_tool_ids = <<>>
    /\ pc = END
    /\ turns = 0
    /\ toolCallsMade = 0
    /\ prevNode = "start"
    /\ boundTools = <<>>
    /\ nodeTools = <<>>
    /\ executed = {}
    /\ retrievedEver = {}
    /\ lastRetrieved = <<>>
    /\ selBefore = <<>>
    /\ store = "none"
    /\ retrieve_tools_function = "default"
    /\ searchFailed = {}
    /\ error = ""

InitReducer ==
    /\ left \in SeqsUpTo(ReducerIds, MaxLen)
    /\ right \in SeqsUpTo(ReducerIds, MaxLen)
    /\ merged = <<>>
    /\ mergedAgain = <<>>
    /\ stage = 0
    /\ IdleGraph
    /\ IdleRouting
    /\ IdleTwoMerges
    /\ IdleStore
    /\ IdleConcurrent
    /\ IdleCache
    /\ IdleCreate
    /\ IdleOther

\* the channel applies its reducer to an update: addNew(left, right)
Merge ==
    /\ stage = 0
    /\ merged' = addNew(left, right)
    /\ stage' = 1
    /\ UNCHANGED <<left, right, mergedAgain>>
    /\ UNCHANGED nonReducerVars

\* the same update arrives a second time: addNew(addNew(left, right), right)
MergeAgain ==
    /\ stage = 1
    /\ mergedAgain' = addNew(merged, right)
    /\ stage' = 2
    /\ UNCHANGED <<left, right, merged>>
    /\ UNCHANGED nonReducerVars

NextReducer == Merge \/ MergeAgain

SpecReducer == InitReducer /\ [][NextReducer]_vars

\* -------------------------------------------- shouldContinue on its own
\* tool-call names shouldContinue is exercised with; "retrieve" is a name
\* that is close to, but is not, the meta-tool's
RouteCallNames == CallNames \cup {"retrieve"}

\* the messages a history can end with
LastMessages ==
    {HumanMessage, [type |-> "ai"], ToolMessage("result", 11, "sqrt")}
    \cup {AIMessage(MakeCalls(names, 1)) : names \in SeqsUpTo(RouteCallNames, MaxRouteCalls)}

RouteMessages ==
    {<<>>} \cup {<<m>> : m \in LastMessages} \cup {<<HumanMessage, m>> : m \in LastMessages}

RouteSelections == {<<>>, <<"sqrt_id">>}

\* every Partial<BigToolState> shouldContinue is exercised with
RouteStates ==
    {[messages |-> m, selected_tool_ids |-> ids] : m \in RouteMessages, ids \in RouteSelections}
    \cup {[messages |-> m] : m \in RouteMessages}
    \cup {[selected_tool_ids |-> ids] : ids \in RouteSelections}

InitRouting ==
    /\ routeState \in RouteStates
    /\ routeResult = "none"
    /\ IdleGraph
    /\ IdleReducer
    /\ IdleTwoMerges
    /\ IdleStore
    /\ IdleConcurrent
    /\ IdleCache
    /\ IdleCreate
    /\ IdleOther

ApplyShouldContinue ==
    /\ routeResult = "none"
    /\ routeResult' = shouldContinue(routeState)
    /\ UNCHANGED routeState
    /\ UNCHANGED nonRoutingVars

NextRouting == ApplyShouldContinue

SpecRouting == InitRouting /\ [][NextRouting]_vars

\* ------------------------------------- two retrievals, merged twice or once
\* ids the two retrievals are exercised with
TwoMergeIds == {"tool1", "tool2"}

InitTwoMerges ==
    /\ twLeft \in SeqsUpTo(TwoMergeIds, MaxLen)
    /\ twFirst \in SeqsUpTo(TwoMergeIds, MaxLen)
    /\ twSecond \in SeqsUpTo(TwoMergeIds, MaxLen)
    /\ twAfterFirst = <<>>
    /\ twAfterSecond = <<>>
    /\ twAtOnce = <<>>
    /\ twStage = 0
    /\ IdleGraph
    /\ IdleReducer
    /\ IdleRouting
    /\ IdleStore
    /\ IdleConcurrent
    /\ IdleCache
    /\ IdleCreate
    /\ IdleOther

\* a turn whose retrieval returns twFirst: the channel applies addNew
MergeFirst ==
    /\ twStage = 0
    /\ twAfterFirst' = addNew(twLeft, twFirst)
    /\ twStage' = 1
    /\ UNCHANGED <<twLeft, twFirst, twSecond, twAfterSecond, twAtOnce>>
    /\ UNCHANGED nonTwoMergeVars

\* a later turn whose retrieval returns twSecond
MergeSecond ==
    /\ twStage = 1
    /\ twAfterSecond' = addNew(twAfterFirst, twSecond)
    /\ twStage' = 2
    /\ UNCHANGED <<twLeft, twFirst, twSecond, twAfterFirst, twAtOnce>>
    /\ UNCHANGED nonTwoMergeVars

\* nodes/tools.ts: selectTools with both retrievals in one AI message:
\* newToolIds.push(...first), newToolIds.push(...second), one update
MergeAtOnce ==
    /\ twStage = 2
    /\ twAtOnce' = addNew(twLeft, Flatten(<<twFirst, twSecond>>))
    /\ twStage' = 3
    /\ UNCHANGED <<twLeft, twFirst, twSecond, twAfterFirst, twAfterSecond>>
    /\ UNCHANGED nonTwoMergeVars

NextTwoMerges == MergeFirst \/ MergeSecond \/ MergeAtOnce

SpecTwoMerges == InitTwoMerges /\ [][NextTwoMerges]_vars

\* ------------------------------------------------------- tool stores (data)
\* the store classes.  HNSWLibStore and MemoryVectorStore share their code.
StoreKinds == {"HNSWLibStore", "MemoryVectorBaseStore",
               "RedisCachedMemoryVectorBaseStore", "RedisVectorBaseStore"}

\* the stores that keep their tool metadata in the toolMetadata Map
MemoryKinds == {"HNSWLibStore", "MemoryVectorBaseStore",
                "RedisCachedMemoryVectorBaseStore"}

\* the stores that keep entries in redis between passes
CachingKinds == {"RedisCachedMemoryVectorBaseStore", "RedisVectorBaseStore"}

\* a tool as the stores read it; description is Undefined when the tool has none
Tool(name, description) == [name |-> name, description |-> description]

\* registries handed to indexTools: insertion-ordered [key, tool] entries
\* over the tools add (without a description) and sqrt (with one of two
\* descriptions), sqrt under a key that differs from its name
StoreRegistries ==
    LET add == <<[key |-> "add", tool |-> Tool("add", Undefined)]>>
        sqrts == {<<[key |-> "sqrt_id", tool |-> Tool("sqrt", dsc)]>> :
                    dsc \in {"root", "square root"}}
    IN  {<<>>, add} \cup sqrts \cup {add \o q : q \in sqrts}

\* the template literal `${a} ${b}`, as the pair of its two parts
Template(a, b) == <<a, b>>

\* `${tool.name} ${tool.description}`: a missing description prints as
\* "undefined"
NameAndDescription(tool) ==
    Template(tool.name,
             IF tool.description = Undefined THEN "undefined" ELSE tool.description)

\* tool.description || ""
DescriptionOrEmpty(tool) ==
    IF tool.description = Undefined THEN "" ELSE tool.description

\* `${tool.name} ${tool.description || ""}`
PageContent(tool) == Template(tool.name, DescriptionOrEmpty(tool))

\* RedisVectorBaseStore.generateHash: sha256 of the text, taken as injective
generateHash(text) == <<"sha256", text>>

\* the embedding provider's vector for a text, a function of the text
Embedding(text) == <<"embedding", text>>

\* utils/registry.ts: getToolId
getToolId(tool) == tool.name

\* utils/registry.ts: createToolDocument, with the vector the store keeps
\* for the document
createToolDocument(tool, vector) ==
    [tool_id |-> getToolId(tool), name |-> tool.name,
     description |-> DescriptionOrEmpty(tool),
     pageContent |-> PageContent(tool), vector |-> vector]

\* HNSWLibStore.indexTools: its documents carry the registry key
HNSWDocument(toolId, tool) ==
    [tool_id |-> toolId, name |-> tool.name,
     description |-> DescriptionOrEmpty(tool),
     pageContent |-> PageContent(tool), vector |-> Embedding(PageContent(tool))]

\* RedisVectorBaseStore.indexTools: doc.metadata.content_hash = contentHash
WithContentHash(doc, contentHash) ==
    [tool_id |-> doc.tool_id, name |-> doc.name, description |-> doc.description,
     pageContent |-> doc.pageContent, vector |-> doc.vector,
     content_hash |-> contentHash]

\* the toolMetadata value of a tool
Metadata(toolId, name, description) ==
    [tool_id |-> toolId, name |-> name, description |-> description]

\* Map.has
MapHas(map, key) == \E i \in DOMAIN map : map[i].key = key

\* Map.get of a key the map has
MapGet(map, key) == map[CHOOSE i \in DOMAIN map : map[i].key = key].value

\* Map.set: a known key keeps its place, a new key goes last
MapSet(map, key, value) ==
    IF MapHas(map, key)
    THEN [i \in DOMAIN map |-> IF map[i].key = key
                               THEN [key |-> key, value |-> value] ELSE map[i]]
    ELSE Append(map, [key |-> key, value |-> value])

\* Map.set for every [key, value] of entries, in order
RECURSIVE MapSetAll(_, _)
MapSetAll(map, entries) ==
    IF entries = <<>> THEN map
    ELSE MapSetAll(MapSet(map, Head(entries).key, Head(entries).value),
                   Tail(entries))

\* a redis that never finds a value
RedisHasNever(db, key) == FALSE

\* redis GET finds a value
RedisHas(db, key) == \E e \in db : e.key = key

\* redis GET of a key that is set
RedisGet(db, key) == (CHOOSE e \in db : e.key = key).value

\* a pipeline that is never executed
RedisSetNone(db, entries) == db

\* redis SET for every [key, value] of entries
RedisSetAll(db, entries) ==
    {e \in db : \A i \in DOMAIN entries : entries[i].key # e.key} \cup Range(entries)

\* a field that a stored JSON object does not have
Missing == <<"undefined">>

\* a stored embedding that is a string, not an array of numbers
NotAnArray == <<"string">>

\* JSON.parse of a stored value: throws on text that is not JSON, gives
\* null for the text "null", and the stored object otherwise
JSONParse(value) ==
    [threw |-> value.json = "invalid", isNull |-> value.json = "null",
     parsed |-> value]

\* getCachedEmbeddingsBatch and the hit test of
\* RedisCachedMemoryVectorBaseStore.indexTools: a value was read, parsed
\* without throwing, and `cached && cached.embedding` is truthy
CachedEmbeddingFound(db, key) ==
    /\ RedisHas(db, key)
    /\ LET json == JSONParse(RedisGet(db, key))
       IN  /\ ~json.threw
           /\ ~json.isNull
           /\ json.parsed.embedding # Missing

\* the meta test of RedisVectorBaseStore.indexTools: a value was read and
\* `meta.content_hash === contentHash` was reached and true (JSON.parse
\* throwing, and the property read on null throwing, end in the catch)
MetaUnchanged(db, key, contentHash) ==
    /\ RedisHas(db, key)
    /\ LET json == JSONParse(RedisGet(db, key))
       IN  /\ ~json.threw
           /\ ~json.isNull
           /\ json.parsed.content_hash = contentHash

\* RedisVectorBaseStore: `bigtool:tools:meta:${toolId}`
MetaKey(toolId) == <<"bigtool:tools:meta", toolId>>

\* RedisCachedMemoryVectorBaseStore.getCacheKey: `${indexName}:${getToolId(tool)}`
getCacheKey(tool) == <<"embeddings", getToolId(tool)>>

\* ------------------------------------------------- tool stores (one pass)
\* what one indexTools call does: the store's three collections after it and
\* a report of the pass.  hits and misses are registry keys in registry
\* order; embedded is the list of texts handed to the embedding provider
\* (empty when it is not called); result is "error" when the call rejects.
PassOutcome(db, docs, meta, reg, result, hits, misses, embedded, calls, before) ==
    [redis |-> db, vectorStore |-> docs, toolMetadata |-> meta,
     report |-> [registry |-> reg, result |-> result, hits |-> hits,
                 misses |-> misses, embedded |-> embedded, calls |-> calls,
                 redisBefore |-> before.redis, listedBefore |-> before.listed,
                 documentsBefore |-> before.documents, expired |-> FALSE]]

\* the calls a pass makes: batch reads and batch writes of redis, calls of
\* the embedding provider, and calls that add to the vector store
Calls(reads, provider, index, writes) ==
    [reads |-> reads, provider |-> provider, index |-> index, writes |-> writes]

\* 1 for a step that is taken, 0 for one that is skipped
Once(taken) == IF taken THEN 1 ELSE 0

\* what a pass finds: the redis keys, the keys of toolMetadata (what list and
\* get answer from in the in-memory stores) and the number of documents
Before(db, docs, meta) ==
    [redis |-> db, listed |-> {meta[i].key : i \in DOMAIN meta},
     documents |-> Len(docs)]

\* the keys of a registry, in order (Object.keys)
ObjectKeys(reg) == [i \in DOMAIN reg |-> reg[i].key]

\* the toolMetadata entries indexTools of the in-memory stores sets
RegistryMetadata(reg) ==
    [i \in DOMAIN reg |->
        [key |-> reg[i].key,
         value |-> Metadata(reg[i].key, reg[i].tool.name,
                            DescriptionOrEmpty(reg[i].tool))]]

\* the toolMetadata entries addVectors sets, keyed by doc.metadata.tool_id
DocumentMetadata(documents) ==
    [i \in DOMAIN documents |->
        [key |-> documents[i].tool_id,
         value |-> Metadata(documents[i].tool_id, documents[i].name,
                            documents[i].description)]]

\* HNSWLibStore.indexTools and MemoryVectorStore.indexTools: toolMetadata is
\* set while the documents are prepared, then addDocuments embeds and adds
HNSWLibStore_indexTools(db, docs, meta, reg, providerOk, now) ==
    LET documents == [i \in DOMAIN reg |-> HNSWDocument(reg[i].key, reg[i].tool)]
        texts == [i \in DOMAIN documents |-> documents[i].pageContent]
        metaAfter == MapSetAll(meta, RegistryMetadata(reg))
    IN  IF texts # <<>> /\ ~providerOk
        THEN PassOutcome(db, docs, metaAfter, reg, "error", <<>>, ObjectKeys(reg),
                         texts, Calls(0, 1, 0, 0), Before(db, docs, meta))
        ELSE PassOutcome(db, docs \o documents, metaAfter, reg, "ok", <<>>,
                         ObjectKeys(reg), texts, Calls(0, Once(texts # <<>>), 1, 0),
                         Before(db, docs, meta))

\* MemoryVectorBaseStore.indexTools: as above with createToolDocument
MemoryVectorBaseStore_indexTools(db, docs, meta, reg, providerOk, now) ==
    LET documents == [i \in DOMAIN reg |->
                         createToolDocument(reg[i].tool,
                                            Embedding(PageContent(reg[i].tool)))]
        texts == [i \in DOMAIN documents |-> documents[i].pageContent]
        metaAfter == MapSetAll(meta, RegistryMetadata(reg))
    IN  IF texts # <<>> /\ ~providerOk
        THEN PassOutcome(db, docs, metaAfter, reg, "error", <<>>, ObjectKeys(reg),
                         texts, Calls(0, 1, 0, 0), Before(db, docs, meta))
        ELSE PassOutcome(db, docs \o documents, metaAfter, reg, "ok", <<>>,
                         ObjectKeys(reg), texts, Calls(0, Once(texts # <<>>), 1, 0),
                         Before(db, docs, meta))

\* RedisCachedMemoryVectorBaseStore.indexTools: a tool is a hit when its
\* cache key holds an entry with an embedding; misses are embedded in one
\* provider call and cached; then hits and misses go through addVectors
RedisCachedMemoryVectorBaseStore_indexTools(db, docs, meta, reg, providerOk, now) ==
    LET all == [i \in DOMAIN reg |-> i]
        hit == SelectSeq(all, LAMBDA i : CachedEmbeddingFound(db, getCacheKey(reg[i].tool)))
        miss == SelectSeq(all, LAMBDA i : ~CachedEmbeddingFound(db, getCacheKey(reg[i].tool)))
        texts == [j \in DOMAIN miss |-> PageContent(reg[miss[j]].tool)]
        cacheEntries ==
            [j \in DOMAIN miss |->
                [key |-> getCacheKey(reg[miss[j]].tool),
                 value |-> [json |-> "object",
                            tool_id |-> getToolId(reg[miss[j]].tool),
                            name |-> reg[miss[j]].tool.name,
                            description |-> DescriptionOrEmpty(reg[miss[j]].tool),
                            embedding |-> Embedding(texts[j]),
                            cached_at |-> now],
                 ttl |-> TRUE]]
        cachedEmbeddings ==
            [j \in DOMAIN hit |->
                createToolDocument(reg[hit[j]].tool,
                                   RedisGet(db, getCacheKey(reg[hit[j]].tool)).embedding)]
            \o [j \in DOMAIN miss |->
                   createToolDocument(reg[miss[j]].tool, Embedding(texts[j]))]
        hits == [j \in DOMAIN hit |-> reg[hit[j]].key]
        misses == [j \in DOMAIN miss |-> reg[miss[j]].key]
    IN  IF texts # <<>> /\ ~providerOk
        THEN PassOutcome(db, docs, meta, reg, "error", hits, misses, texts,
                         Calls(1, 1, 0, 0), Before(db, docs, meta))
        ELSE PassOutcome(RedisSetAll(db, cacheEntries), docs \o cachedEmbeddings,
                         MapSetAll(meta, DocumentMetadata(cachedEmbeddings)),
                         reg, "ok", hits, misses, texts,
                         Calls(Once(reg # <<>>), Once(texts # <<>>),
                               Once(cachedEmbeddings # <<>>), Once(texts # <<>>)),
                         Before(db, docs, meta))

\* RedisVectorBaseStore.indexTools: a tool is unchanged when its meta key
\* holds the hash of `${name} ${description}`; the others are added to the
\* vector store (which embeds them) and then their meta keys are written
RedisVectorBaseStore_indexTools(db, docs, meta, reg, providerOk, now) ==
    LET all == [i \in DOMAIN reg |-> i]
        contentHash == [i \in DOMAIN reg |->
                           generateHash(NameAndDescription(reg[i].tool))]
        Unchanged(i) == MetaUnchanged(db, MetaKey(reg[i].key), contentHash[i])
        same == SelectSeq(all, LAMBDA i : Unchanged(i))
        changed == SelectSeq(all, LAMBDA i : ~Unchanged(i))
        newTools ==
            [j \in DOMAIN changed |->
                WithContentHash(
                    createToolDocument(reg[changed[j]].tool,
                                       Embedding(PageContent(reg[changed[j]].tool))),
                    contentHash[changed[j]])]
        metaData ==
            [j \in DOMAIN changed |->
                [key |-> MetaKey(reg[changed[j]].key),
                 value |-> [json |-> "object",
                            tool_id |-> reg[changed[j]].key,
                            name |-> reg[changed[j]].tool.name,
                            description |-> DescriptionOrEmpty(reg[changed[j]].tool),
                            content_hash |-> contentHash[changed[j]],
                            indexed_at |-> now],
                 ttl |-> TRUE]]
        texts == [j \in DOMAIN newTools |-> newTools[j].pageContent]
        hits == [j \in DOMAIN same |-> reg[same[j]].key]
        misses == [j \in DOMAIN changed |-> reg[changed[j]].key]
    IN  IF texts # <<>> /\ ~providerOk
        THEN PassOutcome(db, docs, meta, reg, "error", hits, misses, texts,
                         Calls(1, 1, 0, 0), Before(db, docs, meta))
        ELSE PassOutcome(RedisSetAll(db, metaData), docs \o newTools, meta,
                         reg, "ok", hits, misses, texts,
                         Calls(Once(reg # <<>>), Once(texts # <<>>),
                               Once(texts # <<>>), Once(texts # <<>>)),
                         Before(db, docs, meta))

\* store.indexTools(reg) of a store of the given class
indexTools(kind, db, docs, meta, reg, providerOk, now) ==
    CASE kind = "HNSWLibStore" ->
            HNSWLibStore_indexTools(db, docs, meta, reg, providerOk, now)
      [] kind = "MemoryVectorBaseStore" ->
            MemoryVectorBaseStore_indexTools(db, docs, meta, reg, providerOk, now)
      [] kind = "RedisCachedMemoryVectorBaseStore" ->
            RedisCachedMemoryVectorBaseStore_indexTools(db, docs, meta, reg, providerOk, now)
      [] kind = "RedisVectorBaseStore" ->
            RedisVectorBaseStore_indexTools(db, docs, meta, reg, providerOk, now)

\* ---------------------------------------------------- tool stores (search)
\* search: options?.limit || 10
DefaultSearchLimit == 10

\* x || fallback for a number x
OrDefault(x, fallback) == IF x = 0 THEN fallback ELSE x

Min(a, b) == IF a < b THEN a ELSE b

\* the sequences of k different elements of S
RECURSIVE Arrangements(_, _)
Arrangements(S, k) ==
    IF k = 0 THEN {<<>>}
    ELSE UNION {{<<x>> \o t : t \in Arrangements(S \ {x}, k - 1)} : x \in S}

\* vectorStore.similaritySearchWithScore(query, k): the k documents nearest
\* to the query, nearest first; which ones they are is the backend's matter
similaritySearchWithScore(docs, k) ==
    {[j \in DOMAIN a |-> docs[a[j]]] : a \in Arrangements(DOMAIN docs, Min(k, Len(docs)))}

\* what a search call comes to
SearchResult(threw, backendCalled, items) ==
    [threw |-> threw, backendCalled |-> backendCalled, items |-> items]

\* MemoryVectorBaseStore.search, HNSWLibStore.search, MemoryVectorStore.search
\* (RedisCachedMemoryVectorBaseStore inherits the first)
MemoryStore_search(docs, meta, query, k) ==
    LET searchLimit == OrDefault(k, DefaultSearchLimit)
    IN  IF query = ""
        THEN {SearchResult(FALSE, FALSE,
                  [i \in 1..Min(searchLimit, Len(meta)) |->
                      [key |-> meta[i].key, tool_id |-> meta[i].value.tool_id,
                       score |-> 1]])}
        ELSE {SearchResult(TRUE, TRUE, <<>>)} \cup
             {SearchResult(FALSE, TRUE,
                  [i \in DOMAIN found |->
                      [key |-> found[i].tool_id,
                       tool_id |-> IF MapHas(meta, found[i].tool_id)
                                   THEN MapGet(meta, found[i].tool_id).tool_id
                                   ELSE found[i].tool_id]]) :
                 found \in similaritySearchWithScore(docs, searchLimit)}

\* RedisVectorBaseStore.search
RedisVectorBaseStore_search(docs, query, k) ==
    LET searchLimit == OrDefault(k, DefaultSearchLimit)
    IN  IF query = ""
        THEN {SearchResult(FALSE, FALSE, <<>>)}
        ELSE {SearchResult(TRUE, TRUE, <<>>)} \cup
             {SearchResult(FALSE, TRUE,
                  [i \in DOMAIN found |->
                      [key |-> found[i].tool_id, tool_id |-> found[i].tool_id]]) :
                 found \in similaritySearchWithScore(docs, searchLimit)}

\* store.search(namespace, { query, limit: k }) of a store of the given class:
\* the results it can give
search(kind, docs, meta, query, k) ==
    IF kind = "RedisVectorBaseStore"
    THEN RedisVectorBaseStore_search(docs, query, k)
    ELSE MemoryStore_search(docs, meta, query, k)

\* utils/retrieval.ts: the function getDefaultRetrievalTool(prefix, limit,
\* filter, store) returns, called with (query, { limit: configLimit }), for
\* one result of store.search
DefaultRetrieval(result) ==
    IF result.threw THEN <<>>
    ELSE [i \in DOMAIN result.items |-> result.items[i].tool_id]

\* ----------------------------------------------------- tool stores (steps)
\* the (query, limit) pairs store.search is exercised with: no query with
\* limits from 0 on, and a query text
SearchInputs == ({""} \X {0, 1, 2}) \cup ({"math"} \X {1, 2})

\* the (query, limit) pairs the retrieval function is exercised with
\* (selectTools passes the agent's limit)
RetrievalInputs == {"", "math"} \X {1, limit}

\* a store of one of the classes, just constructed and connected, over an
\* empty redis
InitStore ==
    /\ storeKind \in StoreKinds
    /\ redis = {}
    /\ vectorStore = <<>>
    /\ toolMetadata = <<>>
    /\ passes = 0
    /\ lastPass = NoPass
    /\ prevPass = NoPass
    /\ lastSearch = NoSearch
    /\ IdleGraph
    /\ IdleReducer
    /\ IdleRouting
    /\ IdleTwoMerges
    /\ IdleConcurrent
    /\ IdleCache
    /\ IdleCreate
    /\ IdleOther

\* store.indexTools(reg), with an embedding provider that answers or fails
IndexTools ==
    /\ passes < MaxPasses
    /\ \E reg \in StoreRegistries, providerOk \in BOOLEAN :
          LET out == indexTools(storeKind, redis, vectorStore, toolMetadata, reg,
                                providerOk, passes)
          IN  /\ redis' = out.redis
              /\ vectorStore' = out.vectorStore
              /\ toolMetadata' = out.toolMetadata
              /\ lastPass' = out.report
    /\ prevPass' = lastPass
    /\ passes' = passes + 1
    /\ lastSearch' = NoSearch
    /\ UNCHANGED storeKind
    /\ UNCHANGED nonStoreVars

\* the TTL of one redis key runs out (expire / setEx)
Expire ==
    /\ \E e \in redis : e.ttl /\ redis' = redis \ {e}
    /\ lastPass' = [lastPass EXCEPT !.expired = TRUE]
    /\ lastSearch' = NoSearch
    /\ UNCHANGED <<storeKind, vectorStore, toolMetadata, passes, prevPass>>
    /\ UNCHANGED nonStoreVars

\* store.search(["tools"], { query, limit: k }).  A search changes nothing
\* a later search reads, so one search is looked at per state of the store.
Search ==
    /\ lastSearch = NoSearch
    /\ \E input \in SearchInputs :
          \E result \in search(storeKind, vectorStore, toolMetadata, input[1],
                               input[2]) :
             lastSearch' = [via |-> "search", query |-> input[1], limit |-> input[2],
                            threw |-> result.threw,
                            backendCalled |-> result.backendCalled,
                            items |-> result.items, toolIds |-> <<>>]
    /\ UNCHANGED <<storeKind, redis, vectorStore, toolMetadata, passes, lastPass,
                   prevPass>>
    /\ UNCHANGED nonStoreVars

\* getDefaultRetrievalTool(["tools"], limit, undefined, store)(query,
\* { limit: k }): searchLimit = k || limit, then store.search in a try block
Retrieve ==
    /\ lastSearch = NoSearch
    /\ \E input \in RetrievalInputs :
          \E result \in search(storeKind, vectorStore, toolMetadata, input[1],
                               OrDefault(input[2], limit)) :
             lastSearch' = [via |-> "retrieve", query |-> input[1],
                            limit |-> input[2],
                            threw |-> result.threw,
                            backendCalled |-> result.backendCalled,
                            items |-> <<>>, toolIds |-> DefaultRetrieval(result)]
    /\ UNCHANGED <<storeKind, redis, vectorStore, toolMetadata, passes, lastPass,
                   prevPass>>
    /\ UNCHANGED nonStoreVars

NextStore == IndexTools \/ Expire \/ Search \/ Retrieve

SpecStore == InitStore /\ [][NextStore]_vars

\* ------------------------------------------- two concurrent indexing passes
\* the processes that index at the same time, each with a store object of
\* its own over the same redis
Procs == {1, 2}

InitConcurrent ==
    /\ conKind \in CachingKinds
    /\ conRegistry \in StoreRegistries
    /\ conRedis = {}
    /\ conIndex = <<>>
    /\ conMemory = [p \in Procs |-> <<>>]
    /\ conSnapshot = [p \in Procs |-> {}]
    /\ conPc = [p \in Procs |-> "start"]
    /\ IdleGraph
    /\ IdleReducer
    /\ IdleRouting
    /\ IdleTwoMerges
    /\ IdleStore
    /\ IdleCache
    /\ IdleCreate
    /\ IdleOther

\* what the pass of process p does with the redis content it read: the
\* pass of a fresh store object of the class over that content
ConcurrentPass(p, providerOk) ==
    indexTools(conKind, conSnapshot[p], <<>>, <<>>, conRegistry, providerOk, 0)

\* the entries the pass of process p writes
Written(p) == ConcurrentPass(p, TRUE).redis \ conSnapshot[p]

\* the batch read of the pass: multi GET (RedisVectorBaseStore) or mGet
\* (getCachedEmbeddingsBatch)
ReadCache(p) ==
    /\ conPc[p] = "start"
    /\ conSnapshot' = [conSnapshot EXCEPT ![p] = conRedis]
    /\ conPc' = [conPc EXCEPT ![p] = "read"]
    /\ UNCHANGED <<conKind, conRegistry, conRedis, conIndex, conMemory>>
    /\ UNCHANGED nonConcurrentVars

\* the embedding of the misses: embeddings.embedDocuments in
\* RedisCachedMemoryVectorBaseStore, vectorStore.addDocuments in
\* RedisVectorBaseStore, which also adds the documents to the redis index.
\* A pass without misses skips it; a provider that fails ends the pass.
EmbedMisses(p) ==
    /\ conPc[p] = "read"
    /\ \E providerOk \in BOOLEAN :
          LET out == ConcurrentPass(p, providerOk)
          IN  IF out.report.result = "error"
              THEN /\ conPc' = [conPc EXCEPT ![p] = "failed"]
                   /\ UNCHANGED conIndex
              ELSE /\ conPc' = [conPc EXCEPT ![p] = "embedded"]
                   /\ conIndex' = IF conKind = "RedisVectorBaseStore"
                                  THEN conIndex \o out.vectorStore ELSE conIndex
    /\ UNCHANGED <<conKind, conRegistry, conRedis, conMemory, conSnapshot>>
    /\ UNCHANGED nonConcurrentVars

\* the batch write of the pass, one MULTI/EXEC: cacheEmbeddingsBatch followed
\* by addVectors on the process's own memory store, or updateMetaMulti.exec
WriteCache(p) ==
    /\ conPc[p] = "embedded"
    /\ conRedis' = {e \in conRedis : \A w \in Written(p) : w.key # e.key}
                      \cup Written(p)
    /\ conMemory' = [conMemory EXCEPT ![p] =
                        IF conKind = "RedisVectorBaseStore" THEN @
                        ELSE @ \o ConcurrentPass(p, TRUE).vectorStore]
    /\ conPc' = [conPc EXCEPT ![p] = "done"]
    /\ UNCHANGED <<conKind, conRegistry, conIndex, conSnapshot>>
    /\ UNCHANGED nonConcurrentVars

NextConcurrent == \E p \in Procs : ReadCache(p) \/ EmbedMisses(p) \/ WriteCache(p)

SpecConcurrent == InitConcurrent /\ [][NextConcurrent]_vars

\* ------------------------------------------ the redis stores, step by step
\* The two stores that keep entries in redis, from construction on, with
\* the calls other than indexTools that write the same keys, the await
\* points of put, and entries that something else left in redis.
MaxPuts == 1

\* the registries indexTools is called with here: none, one and two tools
CacheRegistries ==
    {reg \in StoreRegistries :
        \A i \in DOMAIN reg : reg[i].tool.description \in {Undefined, "root"}}

\* the [key, tool] pairs put is called with
PutItems == UNION {Range(reg) : reg \in CacheRegistries}

\* a store of one of the two classes, just constructed, connected or not,
\* over an empty redis
InitCache ==
    /\ storeKind \in CachingKinds
    /\ redis = {}
    /\ vectorStore = <<>>
    /\ toolMetadata = <<>>
    /\ passes = 0
    /\ lastPass = NoPass
    /\ prevPass = NoPass
    /\ lastSearch = NoSearch
    /\ isConnected \in BOOLEAN
    /\ lastOp = "none"
    /\ prevOp = "none"
    /\ cleared = 0
    /\ putPc = "idle"
    /\ putItem = NoItem
    /\ puts = 0
    /\ IdleGraph
    /\ IdleReducer
    /\ IdleRouting
    /\ IdleTwoMerges
    /\ IdleConcurrent
    /\ IdleCreate
    /\ IdleOther

\* connect() of either store: createClient, connect, isConnected = true
Connect ==
    /\ ~isConnected
    /\ isConnected' = TRUE
    /\ lastOp' = "connect"
    /\ prevOp' = lastOp
    /\ UNCHANGED cleared
    /\ UNCHANGED <<putPc, putItem, puts>>
    /\ UNCHANGED storeVars
    /\ UNCHANGED nonCacheVars

\* RedisVectorBaseStore.ensureConnected connects a store that is not
\* connected; RedisCachedMemoryVectorBaseStore never connects by itself
ensureConnected(kind, connected) ==
    connected \/ kind = "RedisVectorBaseStore"

\* the pass of a RedisCachedMemoryVectorBaseStore that is not connected:
\* indexTools throws before it calls anything
NotConnected(db, docs, meta, reg) ==
    PassOutcome(db, docs, meta, reg, "error", <<>>, <<>>, <<>>,
                Calls(0, 0, 0, 0), Before(db, docs, meta))

\* store.indexTools(reg) from its first line: the connection check or
\* ensureConnected, then the pass
indexToolsFromStart(kind, connected, db, docs, meta, reg, providerOk, now) ==
    IF kind = "RedisCachedMemoryVectorBaseStore" /\ ~connected
    THEN NotConnected(db, docs, meta, reg)
    ELSE indexTools(kind, db, docs, meta, reg, providerOk, now)

\* store.indexTools(reg) on the store as it is (the report of the pass
\* before is not kept here)
IndexToolsCall ==
    /\ passes < MaxPasses
    /\ \E reg \in CacheRegistries, providerOk \in BOOLEAN :
          LET out == indexToolsFromStart(storeKind, isConnected, redis, vectorStore,
                                         toolMetadata, reg, providerOk, passes)
          IN  /\ redis' = out.redis
              /\ vectorStore' = out.vectorStore
              /\ toolMetadata' = out.toolMetadata
              /\ lastPass' = out.report
    /\ isConnected' = ensureConnected(storeKind, isConnected)
    /\ passes' = passes + 1
    /\ lastOp' = "indexTools"
    /\ prevOp' = lastOp
    /\ UNCHANGED cleared
    /\ UNCHANGED <<storeKind, prevPass, lastSearch, putPc, putItem, puts>>
    /\ UNCHANGED nonCacheVars

\* RedisVectorBaseStore.put, the meta entry it writes
PutMetaData(item, now) ==
    [json |-> "object", tool_id |-> item.key, name |-> item.tool.name,
     description |-> DescriptionOrEmpty(item.tool),
     content_hash |-> generateHash(NameAndDescription(item.tool)),
     indexed_at |-> now]

\* RedisVectorBaseStore.put up to its first redis call:
\* `await redisClient.set(metaKey, ...)`, which leaves the key without an
\* expiry whether it was there before or not
PutSet ==
    /\ storeKind = "RedisVectorBaseStore"
    /\ putPc = "idle"
    /\ puts < MaxPuts
    /\ \E item \in PutItems :
          /\ redis' = RedisSetAll(redis, <<[key |-> MetaKey(item.key),
                                            value |-> PutMetaData(item, passes),
                                            ttl |-> FALSE]>>)
          /\ putItem' = item
    /\ isConnected' = TRUE
    /\ putPc' = "set"
    /\ puts' = puts + 1
    /\ lastOp' = "put"
    /\ prevOp' = lastOp
    /\ UNCHANGED cleared
    /\ UNCHANGED <<storeKind, vectorStore, toolMetadata, passes, lastPass, prevPass,
                   lastSearch>>
    /\ UNCHANGED nonCacheVars

\* `value.description` is truthy
HasDescription(tool) == tool.description \notin {Undefined, ""}

\* put goes on: `await redisClient.expire(metaKey, ttlSeconds)`
PutExpire ==
    /\ putPc = "set"
    /\ redis' = {IF e.key = MetaKey(putItem.key) THEN [e EXCEPT !.ttl = TRUE] ELSE e :
                    e \in redis}
    /\ putPc' = IF HasDescription(putItem.tool) THEN "expire" ELSE "idle"
    /\ lastOp' = "put"
    /\ prevOp' = lastOp
    /\ UNCHANGED cleared
    /\ UNCHANGED <<storeKind, vectorStore, toolMetadata, passes, lastPass, prevPass,
                   lastSearch>>
    /\ UNCHANGED <<isConnected, putItem, puts>>
    /\ UNCHANGED nonCacheVars

\* the document put adds for a value with a description
PutDocument(item) ==
    [tool_id |-> item.key, name |-> item.tool.name,
     description |-> item.tool.description,
     pageContent |-> NameAndDescription(item.tool),
     vector |-> Embedding(NameAndDescription(item.tool)),
     content_hash |-> generateHash(NameAndDescription(item.tool))]

\* put ends: `await vectorStore.addDocuments([doc])`, with an embedding
\* provider that answers or fails
PutAddDocuments ==
    /\ putPc = "expire"
    /\ \E providerOk \in BOOLEAN :
          vectorStore' = IF providerOk THEN Append(vectorStore, PutDocument(putItem))
                         ELSE vectorStore
    /\ putPc' = "idle"
    /\ lastOp' = "put"
    /\ prevOp' = lastOp
    /\ UNCHANGED cleared
    /\ UNCHANGED <<storeKind, redis, toolMetadata, passes, lastPass, prevPass,
                   lastSearch>>
    /\ UNCHANGED <<isConnected, putItem, puts>>
    /\ UNCHANGED nonCacheVars

\* put ends after its set: the expire call is rejected (the connection is
\* lost) or the process stops
PutFails ==
    /\ putPc = "set"
    /\ putPc' = "idle"
    /\ lastOp' = "put"
    /\ prevOp' = lastOp
    /\ UNCHANGED cleared
    /\ UNCHANGED storeVars
    /\ UNCHANGED <<isConnected, putItem, puts>>
    /\ UNCHANGED nonCacheVars

\* the values redis can hold under a cache key that the store did not write
\* so: text that is not JSON, the text "null", and an object of another
\* shape (RedisCachedMemoryVectorBaseStore: no embedding, or one that is not
\* an array; RedisVectorBaseStore: no content_hash)
CorruptValues(kind, value) ==
    {[value EXCEPT !.json = "invalid"], [value EXCEPT !.json = "null"]}
    \cup (IF kind = "RedisCachedMemoryVectorBaseStore"
          THEN {[value EXCEPT !.embedding = Missing],
                [value EXCEPT !.embedding = NotAnArray]}
          ELSE {[value EXCEPT !.content_hash = Missing]})

\* the value is one the store writes: a JSON object none of whose fields
\* is as in a corrupt value
IsValid(kind, value) ==
    /\ value.json = "object"
    /\ value \notin CorruptValues(kind, value)

\* something other than the store rewrites the value of one cache key that
\* a pass has just written or read
Corrupt ==
    /\ lastOp = "indexTools"
    /\ \E e \in redis :
          /\ e.value.json = "object"
          /\ \E bad \in CorruptValues(storeKind, e.value) :
                /\ bad # e.value
                /\ redis' = (redis \ {e}) \cup {[e EXCEPT !.value = bad]}
    /\ lastOp' = "corrupt"
    /\ prevOp' = lastOp
    /\ UNCHANGED cleared
    /\ UNCHANGED <<storeKind, vectorStore, toolMetadata, passes, lastPass, prevPass,
                   lastSearch>>
    /\ UNCHANGED <<isConnected, putPc, putItem, puts>>
    /\ UNCHANGED nonCacheVars

\* redis KEYS: the keys that match a pattern; the keys the store sets all
\* begin with bigtool:tools:meta:, which both of the store's patterns match
RedisKeys(db, pattern) ==
    {e.key : e \in {x \in db : /\ x.key[1] = "bigtool:tools:meta"
                               /\ pattern \in {"bigtool:tools:*",
                                                "bigtool:tools:meta:*"}}}

\* a DEL that removes nothing
RedisDelNone(db, keys) == db

\* redis DEL of a set of keys
RedisDel(db, keys) == {e \in db : e.key \notin keys}

\* RedisVectorBaseStore.getIndexStats: total is the number of keys
\* bigtool:tools:meta:*
getIndexStats(db) ==
    [total |-> Cardinality(RedisKeys(db, "bigtool:tools:meta:*"))]

\* RedisVectorBaseStore.clearTools: ensureConnected, del of the keys
\* bigtool:tools:*, vectorStore.delete({ deleteAll: true })
ClearTools ==
    /\ storeKind = "RedisVectorBaseStore"
    /\ lastOp # "clearTools"
    /\ redis' = RedisDel(redis, RedisKeys(redis, "bigtool:tools:*"))
    /\ vectorStore' = <<>>
    /\ cleared' = Cardinality(RedisKeys(redis, "bigtool:tools:*"))
    /\ isConnected' = TRUE
    /\ lastOp' = "clearTools"
    /\ prevOp' = lastOp
    /\ UNCHANGED <<storeKind, toolMetadata, passes, lastPass, prevPass, lastSearch>>
    /\ UNCHANGED <<putPc, putItem, puts>>
    /\ UNCHANGED nonCacheVars

NextCache ==
    \/ Connect \/ IndexToolsCall
    \/ PutSet \/ PutExpire \/ PutAddDocuments \/ PutFails
    \/ Corrupt \/ ClearTools

SpecCache == InitCache /\ [][NextCache]_vars

\* ------------------------------------------------------------ createAgent
\* createAgent({ llm, tools, defaultTools, store }) with a store of any of
\* the classes, and the retrievals of the agent it returns.

\* the defaultTools createAgent is given: none, one tool that is not among
\* the tools, and that one with a tool that may be among them
CreateDefaultRegistries ==
    LET calculator == <<[key |-> "calculator", tool |-> Tool("calculator", "math")]>>
        add == <<[key |-> "add", tool |-> Tool("add", Undefined)]>>
    IN  {<<>>, calculator, calculator \o add}

\* a store just constructed over an empty redis; the redis stores may have
\* been connected
InitCreate ==
    /\ storeKind \in StoreKinds
    /\ redis = {}
    /\ vectorStore = <<>>
    /\ toolMetadata = <<>>
    /\ passes = 0
    /\ lastPass = NoPass
    /\ prevPass = NoPass
    /\ lastSearch = NoSearch
    /\ isConnected \in (IF storeKind \in CachingKinds THEN BOOLEAN ELSE {TRUE})
    /\ lastOp = "none"
    /\ prevOp = "none"
    /\ cleared = 0
    /\ putPc = "idle"
    /\ putItem = NoItem
    /\ puts = 0
    /\ IdleCreate
    /\ IdleOther
    /\ IdleGraph
    /\ IdleReducer
    /\ IdleRouting
    /\ IdleTwoMerges
    /\ IdleConcurrent

\* a createAgent that indexes the default tools too
IndexedRegistryWithDefaults(toolRegistry, defaultRegistry) ==
    toolRegistry \o defaultRegistry

\* createAgent: the registry handed to store.indexTools
IndexedRegistry(toolRegistry, defaultRegistry) == toolRegistry

\* a createAgent that catches what store.indexTools throws
createAgentAlwaysReturns(result) == "returned"

\* createAgent: `await store.indexTools(toolRegistry)` is not in a try
\* block, so createAgent rejects when it does and returns the agent otherwise
createAgentResult(result) == IF result = "ok" THEN "returned" ELSE "rejected"

\* createAgent with a store that has an indexTools method, an embedding
\* provider that answers or fails
CreateAgent ==
    /\ agent = "none"
    /\ \E tools \in StoreRegistries, defaultTools \in CreateDefaultRegistries,
          providerOk \in BOOLEAN :
          LET out == indexToolsFromStart(storeKind, isConnected, redis, vectorStore,
                                         toolMetadata,
                                         IndexedRegistry(tools, defaultTools),
                                         providerOk, passes)
          IN  /\ redis' = out.redis
              /\ vectorStore' = out.vectorStore
              /\ toolMetadata' = out.toolMetadata
              /\ lastPass' = out.report
              /\ agent' = createAgentResult(out.report.result)
              /\ agentTools' = tools
              /\ agentDefaultTools' = defaultTools
    /\ isConnected' = ensureConnected(storeKind, isConnected)
    /\ prevPass' = lastPass
    /\ passes' = passes + 1
    /\ lastOp' = "indexTools"
    /\ prevOp' = lastOp
    /\ UNCHANGED <<storeKind, lastSearch, cleared, putPc, putItem, puts>>
    /\ UNCHANGED nonCreateVars

\* the retrieval function of the agent createAgent returned, called by
\* select_tools
AgentRetrieve ==
    /\ agent = "returned"
    /\ Retrieve

NextCreate == CreateAgent \/ AgentRetrieve

SpecCreate == InitCreate /\ [][NextCreate]_vars

\* -------------------------------------------------------- HTTPEmbeddings
\* embeddings/http.ts: embedDocuments against an embeddings service that
\* answers as it likes, and the use RedisCachedMemoryVectorBaseStore makes
\* of the array returned.

\* what the service can do with a request for documents: the fetch rejects,
\* the status is not ok, or the body is JSON whose embeddings field is any
\* list of vectors
ServiceResponses(documents) ==
    {[kind |-> k, embeddings |-> <<>>] : k \in {"network", "status"}}
    \cup {[kind |-> "ok", embeddings |-> e] :
            e \in SeqsUpTo({Embedding(t) : t \in Range(documents)}, MaxLen)}

\* HTTPEmbeddings.embedDocuments: a rejected fetch and a status that is not
\* ok are thrown again from the catch block; otherwise data.embeddings is
\* returned as it came
embedDocuments(documents, response) ==
    IF response.kind = "ok"
    THEN [threw |-> FALSE, error |-> "", embeddings |-> response.embeddings]
    ELSE [threw |-> TRUE,
          error |-> IF response.kind = "status" THEN "Embeddings service error"
                    ELSE "Network error",
          embeddings |-> <<>>]

\* embeddings[index] of a JavaScript array: undefined past its end
At(embeddings, index) ==
    IF index \in DOMAIN embeddings THEN embeddings[index] ELSE Missing

\* the tools of a pass that all need an embedding, texts in registry order
InitEmbed ==
    /\ \E reg \in StoreRegistries \ {<<>>} :
          embDocuments = [i \in DOMAIN reg |-> PageContent(reg[i].tool)]
    /\ embReturned = NotEmbedded
    /\ embStored = <<>>
    /\ embStage = "start"
    /\ IdleGraph
    /\ IdleReducer
    /\ IdleRouting
    /\ IdleTwoMerges
    /\ IdleStore
    /\ IdleConcurrent
    /\ IdleCache
    /\ IdleCreate
    /\ IdleShared
    /\ IdleDelete
    /\ IdleConnect

\* RedisCachedMemoryVectorBaseStore.indexTools, step 3:
\* `await this.embeddings.embedDocuments(texts)`
EmbedDocuments ==
    /\ embStage = "start"
    /\ \E response \in ServiceResponses(embDocuments) :
          embReturned' = embedDocuments(embDocuments, response)
    /\ embStage' = "embedded"
    /\ UNCHANGED <<embDocuments, embStored>>
    /\ UNCHANGED nonEmbedVars

\* the pass goes on: for every tool, embeddings[index] goes into its cache
\* entry and, as its vector, into the memory vector store; a call that
\* threw ends the pass
StoreEmbeddings ==
    /\ embStage = "embedded"
    /\ IF embReturned.threw
       THEN /\ embStage' = "failed"
            /\ UNCHANGED embStored
       ELSE /\ embStage' = "stored"
            /\ embStored' = [index \in DOMAIN embDocuments |->
                                [text |-> embDocuments[index],
                                 embedding |-> At(embReturned.embeddings, index)]]
    /\ UNCHANGED <<embDocuments, embReturned>>
    /\ UNCHANGED nonEmbedVars

NextEmbed == EmbedDocuments \/ StoreEmbeddings

SpecEmbed == InitEmbed /\ [][NextEmbed]_vars

\* ------------------------------------------- the turn loop without a budget
\* The graph of createAgent, keeping of the history only the last model
\* response and the replies to it: shouldContinue, selectTools and the tool
\* node read nothing older.  The model may answer every call with any AI
\* message, turn after turn; the graph is compiled without an iteration
\* counter.
\* ids a retrieval of the loop returns
LoopResults == {<<>>, <<"sqrt_id">>}

InitLoop ==
    /\ routeState \in {[messages |-> <<HumanMessage>>, selected_tool_ids |-> ids] :
                          ids \in RouteSelections}
    /\ routeResult = "agent"
    /\ IdleGraph
    /\ IdleReducer
    /\ IdleTwoMerges
    /\ IdleStore
    /\ IdleConcurrent
    /\ IdleCache
    /\ IdleCreate
    /\ IdleOther

\* graph.ts: addNode("agent", callModelWithConfig)
LoopCallModel ==
    /\ routeResult = "agent"
    /\ \E names \in SeqsUpTo(CallNames, MaxRouteCalls) :
          routeState' = [routeState EXCEPT !.messages = <<AIMessage(MakeCalls(names, 1))>>]
    /\ routeResult' = "route"
    /\ UNCHANGED nonRoutingVars

\* graph.ts: addConditionalEdges("agent", shouldContinue, ...)
LoopRoute ==
    /\ routeResult = "route"
    /\ routeResult' = shouldContinue(routeState)
    /\ UNCHANGED routeState
    /\ UNCHANGED nonRoutingVars

\* graph.ts: addNode("select_tools", ...) and addEdge("select_tools", "agent")
LoopSelectTools ==
    /\ routeResult = "select_tools"
    /\ LET calls == routeState.messages[1].tool_calls
           retrieveCalls == {i \in DOMAIN calls : calls[i].name = RetrieveTool}
       IN  \E retrievedIds \in [retrieveCalls -> LoopResults] :
              routeState' =
                 [messages |->
                     routeState.messages \o
                     Flatten([i \in DOMAIN calls |->
                                 IF i \in retrieveCalls
                                 THEN <<ToolMessage(RetrievalContent(retrievedIds[i]),
                                                    calls[i].id, RetrieveTool)>>
                                 ELSE <<>>]),
                  selected_tool_ids |->
                     addNew(routeState.selected_tool_ids,
                            Flatten([i \in DOMAIN calls |->
                                        IF i \in retrieveCalls THEN retrievedIds[i]
                                        ELSE <<>>]))]
    /\ routeResult' = "agent"
    /\ UNCHANGED nonRoutingVars

\* graph.ts: addNode("tools", toolNode) and addEdge("tools", "agent")
LoopTools ==
    /\ routeResult = "tools"
    /\ LET calls == routeState.messages[1].tool_calls
           allTools == NodeTools(routeState.selected_tool_ids, <<>>)
       IN  routeState' =
              [routeState EXCEPT !.messages =
                  @ \o [i \in DOMAIN calls |->
                           ToolMessage(IF calls[i].name \in Range(allTools)
                                       THEN "result" ELSE "error: tool not found",
                                       calls[i].id, calls[i].name)]]
    /\ routeResult' = "agent"
    /\ UNCHANGED nonRoutingVars

NextLoop == LoopCallModel \/ LoopRoute \/ LoopSelectTools \/ LoopTools

\* every node that is scheduled runs
SpecLoop == InitLoop /\ [][NextLoop]_vars /\ WF_vars(NextLoop)

\* --------------------------------------- two stores on one redis server
\* Two RedisVectorBaseStore instances constructed with the same redisUrl and
\* different indexName.  Each has its own RedisVectorStore index; the meta
\* keys are `bigtool:tools:meta:${toolId}` for both.
MaxSharedOps == 2

InitShared ==
    /\ IdleShared
    /\ IdleGraph
    /\ IdleReducer
    /\ IdleRouting
    /\ IdleTwoMerges
    /\ IdleStore
    /\ IdleConcurrent
    /\ IdleCache
    /\ IdleCreate
    /\ IdleEmbed
    /\ IdleDelete
    /\ IdleConnect

\* store.indexTools(reg) of the store with the given indexName
SharedIndexTools ==
    /\ sharedOps < MaxSharedOps
    /\ \E name \in IndexNames, reg \in CacheRegistries, providerOk \in BOOLEAN :
          LET out == RedisVectorBaseStore_indexTools(sharedRedis, indexes[name], <<>>,
                                                     reg, providerOk, 0)
          IN  /\ sharedRedis' = out.redis
              /\ indexes' = [indexes EXCEPT ![name] = out.vectorStore]
              /\ sharedOp' = [by |-> name, op |-> "indexTools"]
    /\ sharedOps' = sharedOps + 1
    /\ UNCHANGED nonSharedVars

\* store.put(namespace, key, value): set and expire of the meta key, then
\* addDocuments when the value has a description
SharedPut ==
    /\ sharedOps < MaxSharedOps
    /\ \E name \in IndexNames, item \in PutItems :
          /\ sharedRedis' = RedisSetAll(sharedRedis,
                                        <<[key |-> MetaKey(item.key),
                                           value |-> PutMetaData(item, 0),
                                           ttl |-> TRUE]>>)
          /\ indexes' = IF HasDescription(item.tool)
                        THEN [indexes EXCEPT ![name] = Append(@, PutDocument(item))]
                        ELSE indexes
          /\ sharedOp' = [by |-> name, op |-> "put"]
    /\ sharedOps' = sharedOps + 1
    /\ UNCHANGED nonSharedVars

\* store.delete(namespace, key): del of the meta key; the vector index keeps
\* its document
SharedDelete ==
    /\ sharedOps < MaxSharedOps
    /\ \E name \in IndexNames, item \in PutItems :
          /\ sharedRedis' = RedisDel(sharedRedis, {MetaKey(item.key)})
          /\ sharedOp' = [by |-> name, op |-> "delete"]
    /\ sharedOps' = sharedOps + 1
    /\ UNCHANGED indexes
    /\ UNCHANGED nonSharedVars

\* store.clearTools(): del of the keys bigtool:tools:*, then
\* vectorStore.delete({ deleteAll: true }) on the store's own index
SharedClearTools ==
    /\ sharedOps < MaxSharedOps
    /\ \E name \in IndexNames :
          /\ sharedRedis' = RedisDel(sharedRedis, RedisKeys(sharedRedis, "bigtool:tools:*"))
          /\ indexes' = [indexes EXCEPT ![name] = <<>>]
          /\ sharedOp' = [by |-> name, op |-> "clearTools"]
    /\ sharedOps' = sharedOps + 1
    /\ UNCHANGED nonSharedVars

NextShared == SharedIndexTools \/ SharedPut \/ SharedDelete \/ SharedClearTools

SpecShared == InitShared /\ [][NextShared]_vars

\* ------------------------------------- delete in the in-memory stores
\* HNSWLibStore (MemoryVectorStore has the same code) and
\* MemoryVectorBaseStore: indexTools, put, delete and search on one store.
MaxDeleteOps == 2

\* the classes whose delete is looked at
DeleteKinds == {"HNSWLibStore", "MemoryVectorBaseStore"}

\* Map.delete
MapDelete(map, key) == SelectSeq(map, LAMBDA entry : entry.key # key)

\* store.get(namespace, key): null without metadata under the key
get(meta, key) == IF MapHas(meta, key) THEN MapGet(meta, key) ELSE Undefined

\* store.list(namespace): the keys of the items, in the Map's order
list(meta) == [i \in DOMAIN meta |-> meta[i].key]

InitDelete ==
    /\ storeKind \in DeleteKinds
    /\ redis = {}
    /\ vectorStore = <<>>
    /\ toolMetadata = <<>>
    /\ passes = 0
    /\ lastPass = NoPass
    /\ prevPass = NoPass
    /\ lastSearch = NoSearch
    /\ IdleGraph
    /\ IdleReducer
    /\ IdleRouting
    /\ IdleTwoMerges
    /\ IdleConcurrent
    /\ IdleCache
    /\ IdleCreate
    /\ IdleOther

\* store.indexTools(reg)
DeleteIndexTools ==
    /\ passes < MaxDeleteOps
    /\ \E reg \in CacheRegistries, providerOk \in BOOLEAN :
          LET out == indexTools(storeKind, redis, vectorStore, toolMetadata, reg,
                                providerOk, 0)
          IN  /\ vectorStore' = out.vectorStore
              /\ toolMetadata' = out.toolMetadata
              /\ deleted' = deleted \ Range(ObjectKeys(reg))
    /\ passes' = passes + 1
    /\ lastSearch' = NoSearch
    /\ UNCHANGED <<storeKind, redis, lastPass, prevPass>>
    /\ UNCHANGED nonDeleteVars

\* store.put(namespace, key, value): toolMetadata.set, then addDocuments when
\* the value has a description
DeletePut ==
    /\ passes < MaxDeleteOps
    /\ \E item \in PutItems :
          /\ toolMetadata' = MapSet(toolMetadata, item.key,
                                    Metadata(item.key, item.tool.name,
                                             item.tool.description))
          /\ vectorStore' = IF HasDescription(item.tool)
                            THEN Append(vectorStore, HNSWDocument(item.key, item.tool))
                            ELSE vectorStore
          /\ deleted' = deleted \ {item.key}
    /\ passes' = passes + 1
    /\ lastSearch' = NoSearch
    /\ UNCHANGED <<storeKind, redis, lastPass, prevPass>>
    /\ UNCHANGED nonDeleteVars

\* store.delete(namespace, key): toolMetadata.delete(key) and nothing else
Delete ==
    /\ passes < MaxDeleteOps
    /\ \E item \in PutItems :
          /\ toolMetadata' = MapDelete(toolMetadata, item.key)
          /\ deleted' = deleted \cup {item.key}
    /\ passes' = passes + 1
    /\ lastSearch' = NoSearch
    /\ UNCHANGED <<storeKind, redis, vectorStore, lastPass, prevPass>>
    /\ UNCHANGED nonDeleteVars

\* store.search(["tools"], { query, limit: k })
DeleteSearch ==
    /\ Search
    /\ UNCHANGED deleted

NextDelete == DeleteIndexTools \/ DeletePut \/ Delete \/ DeleteSearch

SpecDelete == InitDelete /\ [][NextDelete]_vars

\* --------------------------------- concurrent calls on a store not connected
\* One RedisVectorBaseStore (RedisCachedMemoryVectorBaseStore has the same
\* connect and disconnect), just constructed, and callers that each call one
\* method without awaiting the others.  A call runs without interruption up to
\* its next await.

\* the methods called: two that begin with `await this.ensureConnected()`,
\* and connect and disconnect themselves
CallOps == {"indexTools", "get", "connect", "disconnect"}

InitConnect ==
    /\ IdleConnect
    /\ isConnected = FALSE
    /\ lastOp = "none"
    /\ prevOp = "none"
    /\ cleared = 0
    /\ putPc = "idle"
    /\ putItem = NoItem
    /\ puts = 0
    /\ IdleGraph
    /\ IdleReducer
    /\ IdleRouting
    /\ IdleTwoMerges
    /\ IdleStore
    /\ IdleConcurrent
    /\ IdleCreate
    /\ IdleEmbed
    /\ IdleShared
    /\ IdleDelete

\* a caller calls a method, which runs to its first await: ensureConnected
\* and connect test isConnected and, when it is false, create a client, set
\* this.redisClient and call its connect(); disconnect tests isConnected and,
\* when it is true, calls quit() on this.redisClient
Call(c) ==
    /\ callPc[c] = "idle"
    /\ \E op \in CallOps :
          /\ callOp' = [callOp EXCEPT ![c] = op]
          /\ IF op = "disconnect"
             THEN /\ callPc' = [callPc EXCEPT ![c] = IF isConnected THEN "quitting"
                                                     ELSE "done"]
                  /\ connectedClients' = IF isConnected
                                         THEN connectedClients \ {redisClient}
                                         ELSE connectedClients
                  /\ UNCHANGED <<redisClient, clients>>
             ELSE IF isConnected
                  THEN /\ callPc' = [callPc EXCEPT ![c] = IF op = "connect" THEN "done"
                                                          ELSE "ready"]
                       /\ UNCHANGED <<redisClient, clients, connectedClients>>
                  ELSE /\ callPc' = [callPc EXCEPT ![c] = "connecting"]
                       /\ clients' = clients + 1
                       /\ redisClient' = clients + 1
                       /\ connectedClients' = connectedClients \cup {clients + 1}
    /\ UNCHANGED <<isConnected, usedClient>>
    /\ UNCHANGED nonConnectVars

\* connect goes on after `await this.redisClient.connect()`: the vector store
\* is built on this.redisClient and isConnected is set
Connected(c) ==
    /\ callPc[c] = "connecting"
    /\ isConnected' = TRUE
    /\ callPc' = [callPc EXCEPT ![c] = IF callOp[c] = "connect" THEN "done" ELSE "ready"]
    /\ UNCHANGED <<callOp, redisClient, clients, connectedClients, usedClient>>
    /\ UNCHANGED nonConnectVars

\* the method goes on after `await this.ensureConnected()`: its redis
\* commands go to this.redisClient
Operate(c) ==
    /\ callPc[c] = "ready"
    /\ usedClient' = [usedClient EXCEPT ![c] = redisClient]
    /\ callPc' = [callPc EXCEPT ![c] = "done"]
    /\ UNCHANGED <<callOp, redisClient, clients, connectedClients, isConnected>>
    /\ UNCHANGED nonConnectVars

\* disconnect goes on after `await this.redisClient.quit()`
Disconnected(c) ==
    /\ callPc[c] = "quitting"
    /\ isConnected' = FALSE
    /\ callPc' = [callPc EXCEPT ![c] = "done"]
    /\ UNCHANGED <<callOp, redisClient, clients, connectedClients, usedClient>>
    /\ UNCHANGED nonConnectVars

NextConnect ==
    \E c \in Callers : Call(c) \/ Connected(c) \/ Operate(c) \/ Disconnected(c)

SpecConnect == InitConnect /\ [][NextConnect]_vars

\* ================================================================ claims
\* the tools named by the default registry
DefaultToolSet == {defaultToolRegistry[i].tool : i \in DOMAIN defaultToolRegistry}

\* the registry tools of the given ids
RegistryToolsOf(ids) == {e.tool : e \in {r \in Range(ToolRegistry) : r.key \in ids}}

\* the k-th smallest member of a set of numbers
KthSmallest(S, k) == CHOOSE i \in S : Cardinality({j \in S : j <= i}) = k

\* C1: in every reachable conversation state selected_tool_ids contains no
\* id twice.  (Stated as claimed; the reducer does not look for repetitions
\* inside the update it appends, so this is violated.)
C1_NoDuplicateIds == IsUnique(selected_tool_ids)

C3_SelectionOnlyGrows == [][IsPrefix(selected_tool_ids, selected_tool_ids')]_vars

C3_Witness ==
    /\ prevNode = "select_tools"
    /\ selBefore = <<"sqrt_id">>
    /\ selected_tool_ids = <<"sqrt_id", "ghost">>

\* C4: after a model call the set of bound tools is exactly retrieve_tools,
\* the default tools and the registry tools of the selected ids; a registry
\* tool that is neither selected nor a default tool is not bound.
C4_BoundToolsExact ==
    prevNode = "agent" =>
        /\ Range(boundTools) =
               {RetrieveTool} \cup DefaultToolSet
               \cup RegistryToolsOf(Range(selected_tool_ids))
        /\ \A e \in Range(ToolRegistry) :
               (e.key \notin Range(selected_tool_ids) /\ e.tool \notin DefaultToolSet)
                   => e.tool \notin Range(boundTools)

C4_Witness ==
    /\ prevNode = "agent"
    /\ "sqrt_id" \in Range(selected_tool_ids)
    /\ defaultToolRegistry # <<>>
    /\ Range(boundTools) = {RetrieveTool, "calculator", "add", "sqrt"}

\* C5: a registry tool that is not a default tool is bound, or is given to
\* or run by the tools node, only if its id is selected, and a selected id
\* comes from the input or from a retrieval; with an empty input selection
\* and nothing retrieved the invokable set is retrieve_tools plus the
\* default tools.
C5_OnlySelectedInvokable ==
    /\ Range(selected_tool_ids) \subseteq Range(initial_ids) \cup retrievedEver
    /\ \A e \in Range(ToolRegistry) :
           e.tool \notin DefaultToolSet /\ e.key \notin Range(selected_tool_ids) =>
               /\ prevNode = "agent" => e.tool \notin Range(boundTools)
               /\ prevNode = "tools" => e.tool \notin Range(nodeTools) \cup executed
    /\ (initial_ids = <<>> /\ retrievedEver = {}) =>
           /\ prevNode = "agent" =>
                  Range(boundTools) = {RetrieveTool} \cup DefaultToolSet
           /\ prevNode = "tools" =>
                  /\ Range(nodeTools) = {RetrieveTool} \cup DefaultToolSet
                  /\ executed \subseteq {RetrieveTool} \cup DefaultToolSet

\* the model asked for sqrt while sqrt_id was not selected: the tools node
\* ran the default tool and refused sqrt
C5_Witness ==
    /\ prevNode = "tools"
    /\ initial_ids = <<>>
    /\ retrievedEver = {}
    /\ executed = {"calculator"}
    /\ \E i \in DOMAIN messages :
           /\ messages[i].type = "tool"
           /\ messages[i].name = "sqrt"
           /\ messages[i].content = "error: tool not found"

\* the last AI message asks for the retrieval meta-tool
RequestsRetrieval(m) ==
    /\ m.type = "ai"
    /\ "tool_calls" \in DOMAIN m
    /\ \E i \in DOMAIN m.tool_calls : m.tool_calls[i].name = RetrieveTool

CanRetrieve == store = "given" \/ retrieve_tools_function = "custom"

RouteHasCalls ==
    /\ "messages" \in DOMAIN routeState
    /\ Len(routeState.messages) > 0
    /\ LET m == routeState.messages[Len(routeState.messages)]
       IN  m.type = "ai" /\ "tool_calls" \in DOMAIN m /\ Len(m.tool_calls) > 0

RouteCalls == routeState.messages[Len(routeState.messages)].tool_calls

\* C7: shouldContinue returns select_tools whenever a tool call of the last
\* AI message is named retrieve_tools, whatever else is called and whatever
\* is selected.
C7_RetrievalWins ==
    (routeResult # "none" /\ RouteHasCalls
     /\ \E i \in DOMAIN RouteCalls : RouteCalls[i].name = RetrieveTool)
        => routeResult = "select_tools"

C7_Witness ==
    /\ routeResult = "select_tools"
    /\ RouteHasCalls
    /\ Len(RouteCalls) = 3
    /\ RouteCalls[1].name = "sqrt" /\ RouteCalls[2].name = "calculator"
    /\ RouteCalls[3].name = RetrieveTool
    /\ "selected_tool_ids" \in DOMAIN routeState
    /\ routeState.selected_tool_ids = <<"sqrt_id">>

\* C8: shouldContinue returns END exactly when there are no messages, the
\* last message is not an AI message, or the last AI message has no or an
\* empty tool_calls.
C8_EndExactly ==
    routeResult # "none" => (routeResult = END <=> ~RouteHasCalls)

C8_Witness ==
    /\ routeResult = END
    /\ "messages" \in DOMAIN routeState
    /\ Len(routeState.messages) = 2
    /\ routeState.messages[2] = AIMessage(<<>>)

\* C9: shouldContinue returns tools exactly when the last AI message has at
\* least one tool call and none is named retrieve_tools; the selection plays
\* no part.
C9_ToolsExactly ==
    routeResult # "none" =>
        (routeResult = "tools" <=>
            /\ RouteHasCalls
            /\ \A i \in DOMAIN RouteCalls : RouteCalls[i].name # RetrieveTool)

C9_Witness ==
    /\ routeResult = "tools"
    /\ RouteHasCalls
    /\ \E i \in DOMAIN RouteCalls : RouteCalls[i].name = "retrieve"
    /\ \/ "selected_tool_ids" \notin DOMAIN routeState
       \/ routeState.selected_tool_ids = <<>>

\* C10: for every ordered-unique L and every R, merging R a second time
\* changes nothing, and the merge keeps every element of L at its position.
C10_MergeIdempotent ==
    (stage = 2 /\ IsUnique(left)) =>
        /\ mergedAgain = merged
        /\ Len(merged) >= Len(left)
        /\ \A i \in DOMAIN left : merged[i] = left[i]

C10_Witness ==
    /\ stage = 2
    /\ left = <<"tool1", "tool2">>
    /\ right = <<"tool2", "tool3", "tool1">>
    /\ merged = <<"tool1", "tool2", "tool3">>
    /\ mergedAgain = merged

\* C11: for every ordered-unique L and all retrieval results R1, R2, merging
\* R1 and then R2 gives the same sequence as merging R1 followed by R2 in one
\* update.  (Stated as claimed; an id that both R1 and R2 return and L lacks
\* is appended once by the two merges and twice by the single one.)
C11_TwoMergesAsOne ==
    (twStage = 3 /\ IsUnique(twLeft)) => twAfterSecond = twAtOnce

\* C12: when createAgent is called without a store (and nothing else is
\* configured), the first model call binds every tool of the registry.
\* (Stated as the README claims; callModel binds retrieve_tools, the default
\* tools and the selected tools only.)
C12_NoStoreBindsAll ==
    (store = "none" /\ retrieve_tools_function = "default"
        /\ turns = 1 /\ prevNode = "agent")
    => Range(ObjectValues(ToolRegistry)) \subseteq Range(boundTools)

\* the latest two passes indexed the same registry, the earlier one over an
\* empty redis and with success, and no key expired in between
SamePassTwice ==
    /\ storeKind \in CachingKinds
    /\ prevPass.result = "ok"
    /\ prevPass.redisBefore = {}
    /\ ~prevPass.expired
    /\ lastPass.result # "none"
    /\ lastPass.registry = prevPass.registry

\* C13: in a caching store, indexTools(R) over an empty cache followed by
\* indexTools(R) within the TTL: the first pass has all of R as misses and no
\* hit, the second has all of R as hits, no miss and embeds nothing.
C13_SecondPassAllHits ==
    SamePassTwice =>
        /\ prevPass.hits = <<>>
        /\ prevPass.misses = ObjectKeys(prevPass.registry)
        /\ lastPass.result = "ok"
        /\ lastPass.hits = ObjectKeys(lastPass.registry)
        /\ lastPass.misses = <<>>
        /\ lastPass.embedded = <<>>

C13_Witness ==
    /\ SamePassTwice
    /\ Len(lastPass.registry) = 2
    /\ Len(lastPass.hits) = 2

\* the redis key under which a caching store keeps the entry of a registry
\* tool
CacheKeyOf(kind, toolId, tool) ==
    IF kind = "RedisVectorBaseStore" THEN MetaKey(toolId) ELSE getCacheKey(tool)

\* C14: in every caching store, a tool that had a cache entry when the pass
\* began is a miss of the pass, and its text is embedded again, if its
\* description differs from the cached one under the same name, and is a hit
\* if name and description are the cached ones.  (Stated as claimed;
\* RedisCachedMemoryVectorBaseStore compares nothing and reports a hit.)
C14_DescriptionChangeIsMiss ==
    (storeKind \in CachingKinds /\ lastPass.result # "none") =>
        \A i \in DOMAIN lastPass.registry :
            LET toolId == lastPass.registry[i].key
                tool == lastPass.registry[i].tool
                cacheKey == CacheKeyOf(storeKind, toolId, tool)
                cached == RedisGet(lastPass.redisBefore, cacheKey)
            IN  (RedisHas(lastPass.redisBefore, cacheKey) /\ cached.name = tool.name)
                => IF cached.description # DescriptionOrEmpty(tool)
                   THEN /\ toolId \in Range(lastPass.misses)
                        /\ PageContent(tool) \in Range(lastPass.embedded)
                   ELSE toolId \in Range(lastPass.hits)

\* C15: in the store that hashes (RedisVectorBaseStore), every indexed
\* document's content hash is the hash of the very text that was embedded
\* and indexed for it, "{name} {description}" with a missing description as
\* the empty string.  (Stated as claimed; the store hashes
\* `${tool.name} ${tool.description}`, which reads "undefined" for a missing
\* description, and embeds `${tool.name} ${tool.description || ""}`.)
C15_HashedTextIsEmbeddedText ==
    storeKind = "RedisVectorBaseStore" =>
        \A i \in DOMAIN vectorStore :
            /\ vectorStore[i].vector = Embedding(vectorStore[i].pageContent)
            /\ vectorStore[i].content_hash = generateHash(vectorStore[i].pageContent)

\* the cache entries a redis holds for a tool name
EntriesFor(db, name) == {e \in db : e.value.name = name}

\* the positions of the latest pass's registry whose tool was cached when
\* the pass began
CachedPositions ==
    {i \in DOMAIN lastPass.registry :
        EntriesFor(lastPass.redisBefore, lastPass.registry[i].tool.name) # {}}

\* a pass of RedisCachedMemoryVectorBaseStore that went through, with every
\* tool that was cached unchanged since, and no key expired after it
CachedPass ==
    /\ storeKind = "RedisCachedMemoryVectorBaseStore"
    /\ lastPass.result = "ok"
    /\ ~lastPass.expired
    /\ \A i \in CachedPositions :
          \A e \in EntriesFor(lastPass.redisBefore, lastPass.registry[i].tool.name) :
             e.value.description = DescriptionOrEmpty(lastPass.registry[i].tool)

\* C16: a pass of RedisCachedMemoryVectorBaseStore over a registry R of which
\* the tools S are cached and unchanged hands the provider exactly the texts
\* of R \ S (nothing, and no call, when R \ S is empty), adds the tools of S
\* with their cached embeddings, and leaves every tool of R with a cache entry.
C16_EmbedsOnlyMisses ==
    CachedPass =>
        LET R == lastPass.registry
            uncached == SelectSeq([i \in DOMAIN R |-> i],
                                  LAMBDA i : i \notin CachedPositions)
            added == SubSeq(vectorStore, Len(vectorStore) - Len(R) + 1,
                            Len(vectorStore))
        IN  /\ lastPass.embedded = [j \in DOMAIN uncached |-> PageContent(R[uncached[j]].tool)]
            /\ \A i \in CachedPositions :
                  \E j \in DOMAIN added :
                     /\ added[j].name = R[i].tool.name
                     /\ \E e \in EntriesFor(lastPass.redisBefore, R[i].tool.name) :
                           added[j].vector = e.value.embedding
            /\ \A i \in DOMAIN R : EntriesFor(redis, R[i].tool.name) # {}

\* a pass with one cached tool and one that is not
C16_Witness ==
    /\ CachedPass
    /\ Len(lastPass.registry) = 2
    /\ Cardinality(CachedPositions) = 1
    /\ Len(lastPass.embedded) = 1

\* the latest pass failed in the embedding provider, and no key expired since
FailedPass ==
    /\ lastPass.result = "error"
    /\ lastPass.embedded # <<>>
    /\ ~lastPass.expired

\* C17: a pass that fails in the embedding provider leaves nothing behind:
\* redis is as the pass found it, the vector store has no new document (so a
\* search finds no tool of the pass) and toolMetadata, from which get, list
\* and the search without a query answer, has no new key.  (Stated as
\* claimed; the in-memory stores set toolMetadata before they embed.)
C17_FailedPassLeavesNothing ==
    FailedPass =>
        /\ redis = lastPass.redisBefore
        /\ Len(vectorStore) = lastPass.documentsBefore
        /\ {toolMetadata[i].key : i \in DOMAIN toolMetadata} \subseteq lastPass.listedBefore

\* C18: the id list the default retrieval function returns contains no id
\* twice and is no longer than the limit it was called with, whatever the
\* query and the store's content.  (Stated as claimed; a tool indexed by two
\* passes has two documents, and both can be among the nearest.)
C18_RetrievedIdsUniqueAndBounded ==
    lastSearch.via = "retrieve" =>
        /\ IsUnique(lastSearch.toolIds)
        /\ Len(lastSearch.toolIds) <= lastSearch.limit

\* C20: a search without a query, with any limit k >= 0, does not call the
\* similarity backend and returns at most k entries; in the stores with
\* toolMetadata these are its first min(k, n) entries in insertion order,
\* each with score 1.  (Stated as claimed; the stores read the limit as
\* options?.limit || 10, so k = 0 asks for 10.)
C20_NoQueryShortCircuit ==
    (lastSearch.via = "search" /\ lastSearch.query = "") =>
        /\ ~lastSearch.backendCalled
        /\ ~lastSearch.threw
        /\ Len(lastSearch.items) <= lastSearch.limit
        /\ storeKind \in MemoryKinds =>
              /\ Len(lastSearch.items) = Min(lastSearch.limit, Len(toolMetadata))
              /\ \A i \in DOMAIN lastSearch.items :
                    /\ lastSearch.items[i].key = toolMetadata[i].key
                    /\ lastSearch.items[i].score = 1

\* the latest AI message of the conversation
LastAIMessage ==
    messages[CHOOSE i \in DOMAIN messages :
                /\ isAIMessage(messages[i])
                /\ \A j \in DOMAIN messages : j > i => ~isAIMessage(messages[j])]

\* the ids of the retrieve_tools calls of a message
RetrieveCallIds(m) ==
    {m.tool_calls[i].id : i \in {j \in DOMAIN m.tool_calls :
                                    m.tool_calls[j].name = RetrieveTool}}

\* C19: when store.search fails in a retrieval, the retrieval raises nothing
\* (the invocation goes on), the retrieve_tools call is answered with the
\* no-relevant-tools message, selected_tool_ids is unchanged when no other
\* retrieval of the step succeeded, the graph returns to the agent, and the
\* invocation ends once the model answers without tool calls.
C19_SearchFailureTolerated ==
    searchFailed # {} =>
        /\ pc # "error"
        /\ \A id \in searchFailed :
              \E i \in DOMAIN messages :
                 /\ messages[i].type = "tool"
                 /\ messages[i].name = RetrieveTool
                 /\ messages[i].tool_call_id = id
                 /\ ~messages[i].content.found
        /\ prevNode = "select_tools" =>
              /\ pc = "agent"
              /\ RetrieveCallIds(LastAIMessage) \subseteq searchFailed
                    => selected_tool_ids = selBefore
        /\ (prevNode = "agent" /\ pc # "route"
               /\ Len(lastMessage.tool_calls) = 0) => pc = END

\* a retrieval failed, the step went back to the agent with the selection
\* as it was, and the model's plain answer ended the invocation
C19_Witness ==
    /\ searchFailed # {}
    /\ pc = END
    /\ Len(lastMessage.tool_calls) = 0
    /\ selected_tool_ids = initial_ids

\* C21: the reply to a retrieve_tools call is the no-relevant-tools message
\* exactly when the retrieval returned nothing; otherwise it lists every
\* retrieved tool and its stated count is the number of tools listed.
\* (Stated as claimed, for a step that answers one retrieve_tools call; the
\* reply counts the ids returned and lists the ids the registry knows.)
C21_ReplyMatchesResult ==
    (prevNode = "select_tools" /\ pc = "agent"
        /\ Cardinality(RetrieveCallIds(LastAIMessage)) = 1) =>
        LET reply == lastMessage.content
        IN  /\ ~reply.found <=> lastRetrieved = <<>>
            /\ reply.found =>
                  /\ Len(reply.listed) = Len(lastRetrieved)
                  /\ reply.count = Len(reply.listed)

\* what one pass alone, over an empty redis, leaves behind
SinglePass == indexTools(conKind, {}, <<>>, <<>>, conRegistry, TRUE, 0)

\* C22: two passes that index the same registry at the same time: at every
\* moment each key holds a complete entry, the one a single pass writes, and
\* when both are through redis holds what a single pass leaves; apart from
\* the embedding being computed twice nothing is repeated.  (Stated as
\* claimed; both passes of RedisVectorBaseStore add their documents to the
\* shared index.)
C22_ConcurrentPassesAgree ==
    /\ conRedis \subseteq SinglePass.redis
    /\ (\A p \in DOMAIN conPc : conPc[p] = "done") =>
          /\ conRedis = SinglePass.redis
          /\ conIndex = IF conKind = "RedisVectorBaseStore"
                        THEN SinglePass.vectorStore ELSE <<>>

\* the latest two passes went through over the same registry
SameRegistryAgain ==
    /\ storeKind \in CachingKinds
    /\ prevPass.result = "ok"
    /\ lastPass.result = "ok"
    /\ ~lastPass.expired
    /\ lastPass.registry = prevPass.registry

\* the entries a redis holds under the cache key of a registry tool
EntriesAt(db, entry) ==
    {e \in db : e.key = CacheKeyOf(storeKind, entry.key, entry.tool)}

\* C23: a cache entry whose TTL ran out is absent: the pass that follows
\* classifies its tool as a miss, embeds it again and writes the entry anew;
\* a tool whose entry is still there is a hit, and the pass leaves that
\* entry as it was, value, timestamp and expiry.
C23_ExpiredIsMissHitUntouched ==
    SameRegistryAgain =>
        \A i \in DOMAIN lastPass.registry :
            LET entry == lastPass.registry[i]
            IN  IF EntriesAt(lastPass.redisBefore, entry) = {}
                THEN /\ entry.key \in Range(lastPass.misses)
                     /\ PageContent(entry.tool) \in Range(lastPass.embedded)
                     /\ EntriesAt(redis, entry) # {}
                     /\ \A e \in EntriesAt(redis, entry) : e.ttl
                ELSE /\ entry.key \in Range(lastPass.hits)
                     /\ EntriesAt(redis, entry) = EntriesAt(lastPass.redisBefore, entry)

\* one of two keys expired between two passes over the same registry
C23_Witness ==
    /\ SameRegistryAgain
    /\ prevPass.expired
    /\ Len(lastPass.misses) = 1
    /\ Len(lastPass.hits) = 1

\* C24: with a TTL configured, every cache key that exists has an expiry,
\* in every state, those between the steps of a write and those a failed
\* write leaves included.
C24_EveryKeyHasExpiry == \A e \in redis : e.ttl

\* the step is an indexTools call with an empty registry
EmptyRegistryPass ==
    /\ passes' = passes + 1
    /\ lastOp' = "indexTools"
    /\ lastPass'.registry = <<>>

\* C25: indexTools with an empty registry is a no-op: it returns without
\* error, calls neither redis (the connection included) nor the embedding
\* provider nor the vector store, and leaves redis and the index as they
\* were.
C25_EmptyRegistryNoOp ==
    [][EmptyRegistryPass =>
          /\ lastPass'.result = "ok"
          /\ lastPass'.calls = Calls(0, 0, 0, 0)
          /\ isConnected' = isConnected
          /\ redis' = redis
          /\ vectorStore' = vectorStore
          /\ toolMetadata' = toolMetadata]_vars

\* the positions of the latest pass's registry whose cache key held a value
\* that fails to parse or has another shape when the pass began
CorruptPositions ==
    {i \in DOMAIN lastPass.registry :
        \E e \in EntriesAt(lastPass.redisBefore, lastPass.registry[i]) :
           ~IsValid(storeKind, e.value)}

\* C26: a pass over a redis with a corrupt cache entry does not throw
\* because of it (it fails only when the embedding provider does), counts
\* the entry's tool as a miss, embeds it again and leaves a valid entry
\* under the key.
C26_CorruptEntryIsMiss ==
    (lastOp = "indexTools" /\ CorruptPositions # {}) =>
        /\ lastPass.result = "error" => lastPass.calls.provider = 1
        /\ \A i \in CorruptPositions :
              LET entry == lastPass.registry[i]
              IN  /\ entry.key \in Range(lastPass.misses)
                  /\ PageContent(entry.tool) \in Range(lastPass.embedded)
                  /\ lastPass.result = "ok" =>
                        /\ EntriesAt(redis, entry) # {}
                        /\ \A e \in EntriesAt(redis, entry) : IsValid(storeKind, e.value)

\* C27: RedisVectorBaseStore.clearTools leaves no cache entry and no index
\* entry: right after it getIndexStats reports total 0, and an indexTools
\* pass that comes next has every tool of its registry as a miss.
C27_ClearToolsRemovesAll ==
    /\ lastOp = "clearTools" =>
          /\ getIndexStats(redis).total = 0
          /\ redis = {}
          /\ vectorStore = <<>>
    /\ (prevOp = "clearTools" /\ lastOp = "indexTools") =>
          /\ lastPass.hits = <<>>
          /\ lastPass.misses = ObjectKeys(lastPass.registry)
          /\ lastPass.documentsBefore = 0

\* clearTools removed the keys of two tools, and the two were indexed next
C27_Witness ==
    /\ prevOp = "clearTools"
    /\ lastOp = "indexTools"
    /\ cleared = 2
    /\ lastPass.result = "ok"
    /\ Len(lastPass.misses) = 2

\* C29: in an agent created with no store and no retrieval function of its
\* own, a select_tools step over a retrieve_tools call fails with the error
\* that names the missing store: the invocation rejects with it, and no
\* reply is written and no tool selected as if nothing had been found.
C29_NoStoreRetrievalThrows ==
    [][(pc = "select_tools" /\ store = "none" /\ retrieve_tools_function = "default"
            /\ RequestsRetrieval(lastMessage)) =>
          /\ pc' = "error"
          /\ error' = StoreIsRequired
          /\ messages' = messages
          /\ selected_tool_ids' = selected_tool_ids]_vars

\* the invocation of such an agent has been rejected in select_tools
C29_Witness ==
    /\ pc = "error"
    /\ error = StoreIsRequired
    /\ store = "none"
    /\ retrieve_tools_function = "default"
    /\ RequestsRetrieval(lastMessage)

\* the tools given to createAgent in defaultTools only: neither their key
\* nor their name is among the tools
DefaultOnly ==
    {d \in Range(agentDefaultTools) :
        \A i \in DOMAIN agentTools :
           /\ agentTools[i].key # d.key
           /\ agentTools[i].tool.name # d.tool.name}

\* C28: createAgent hands store.indexTools the registry built from `tools`
\* and nothing else: a tool given in defaultTools only has no cache entry,
\* no document in the index and no metadata, and no retrieval of the agent
\* returns it.
C28_DefaultToolsNotIndexed ==
    agent # "none" =>
        /\ lastPass.registry = agentTools
        /\ \A d \in DefaultOnly :
              /\ EntriesFor(redis, d.tool.name) = {}
              /\ \A i \in DOMAIN vectorStore : vectorStore[i].name # d.tool.name
              /\ ~MapHas(toolMetadata, d.key)
              /\ {d.key, getToolId(d.tool)} \cap Range(lastSearch.toolIds) = {}

\* an agent with tools and a default tool of its own, after a retrieval
\* that returned tools
C28_Witness ==
    /\ agent = "returned"
    /\ Len(agentTools) = 2
    /\ DefaultOnly # {}
    /\ lastSearch.via = "retrieve"
    /\ Len(lastSearch.toolIds) = 2

\* C30: createAgent returns an agent only when store.indexTools went
\* through; when it fails, createAgent rejects, and the agent it returns
\* otherwise has every one of its tools in the store's index.
C30_IndexFailureRejects ==
    agent # "none" =>
        /\ lastPass.result = "error" <=> agent = "rejected"
        /\ agent = "returned" =>
              \A i \in DOMAIN agentTools :
                 \E j \in DOMAIN vectorStore :
                    vectorStore[j].name = agentTools[i].tool.name

\* createAgent rejected because the embedding provider failed, and because
\* the store was not connected
C30_Witness ==
    /\ agent = "rejected"
    /\ lastPass.result = "error"
    /\ agentTools # <<>>

\* C31: embedDocuments returns one vector per text or throws, so that the
\* pass caches and indexes, for every tool, an embedding, and the one
\* returned at the tool's own position.
C31_OneVectorPerText ==
    /\ (embStage # "start" /\ ~embReturned.threw) =>
          Len(embReturned.embeddings) = Len(embDocuments)
    /\ embStage = "stored" =>
          \A index \in DOMAIN embStored :
             /\ embStored[index].embedding # Missing
             /\ embStored[index].embedding = embReturned.embeddings[index]

AIPositions(history) == {i \in DOMAIN history : isAIMessage(history[i])}

\* the ids of the tool calls of the last AI message that no later
\* ToolMessage answers
Unanswered(history) ==
    IF AIPositions(history) = {} THEN {}
    ELSE LET last == CHOOSE i \in AIPositions(history) :
                        \A j \in AIPositions(history) : j <= i
             calls == history[last].tool_calls
         IN  {calls[i].id : i \in DOMAIN calls} \
             {history[j].tool_call_id :
                 j \in {k \in DOMAIN history : k > last /\ history[k].type = "tool"}}

\* C33: when the model is about to be called again, every tool call of the
\* last AI message has a ToolMessage with its tool_call_id, also when that
\* message mixed retrieve_tools with other tool calls.
C33_EveryCallAnswered == pc = "agent" => Unanswered(messages) = {}

\* C34: every id a retrieval has added to selected_tool_ids is a key of the
\* tool registry.
C34_RetrievedIdsAreRegistryKeys ==
    \A id \in retrievedEver \cap Range(selected_tool_ids) :
        id \in Range(ObjectKeys(ToolRegistry))

\* the keys under which some registry handed to indexTools holds a tool
IndexedKeys == UNION {Range(ObjectKeys(reg)) : reg \in StoreRegistries}

\* C35: every id a search of the store returns, as an item's key or through
\* the default retrieval function, is the registry key of an indexed tool,
\* also for the tool sqrt registered under the key sqrt_id.
C35_SearchReturnsRegistryKeys ==
    (lastSearch # NoSearch /\ ~lastSearch.threw) =>
        /\ \A i \in DOMAIN lastSearch.items : lastSearch.items[i].key \in IndexedKeys
        /\ Range(lastSearch.toolIds) \subseteq IndexedKeys

\* the content hash a meta entry of the shared redis carries
MetaHashes(db) ==
    {e.value.content_hash : e \in {x \in db : x.key[1] = "bigtool:tools:meta"}}

\* C36: whenever a RedisVectorBaseStore holds a metadata entry with content
\* hash h, the vector index of its indexName holds an entry with hash h:
\* after any indexTools, put, delete and clearTools of two stores with
\* different indexName on one redis.
C36_MetaHasIndexEntry ==
    \A name \in IndexNames :
        \A h \in MetaHashes(sharedRedis) :
            \E i \in DOMAIN indexes[name] : indexes[name][i].content_hash = h

\* what the store of an indexName sees of the metadata: its entries (get,
\* list), the tools of each registry an indexTools pass would leave unchanged,
\* and getIndexStats; all three read the keys bigtool:tools:meta:*, in which
\* the indexName does not occur
MetadataView(name, db) ==
    [entries |-> {[key |-> e.key, value |-> e.value] : e \in db},
     unchanged |-> [reg \in CacheRegistries |->
                       RedisVectorBaseStore_indexTools(db, <<>>, <<>>, reg, TRUE, 0).report.hits],
     stats |-> getIndexStats(db)]

\* C37: two stores with different indexName on one redis are isolated: an
\* indexTools, put, delete or clearTools of one leaves the metadata, the
\* hit/miss classification and the getIndexStats of the other unchanged.
C37_StoresIsolated ==
    [][\A other \in IndexNames \ {sharedOp'.by} :
          MetadataView(other, sharedRedis') = MetadataView(other, sharedRedis)]_vars

\* RedisCachedMemoryVectorBaseStore.indexTools, the numbers of its verbose
\* report: `cachedResults.size` cache hits, where getCachedEmbeddingsBatch
\* sets an entry for every tool whose cache value is there and parses, and
\* `toolsNeedingEmbeddings.length` computed
VerboseReport(db, reg) ==
    [hits |-> Cardinality({i \in DOMAIN reg :
                 /\ RedisHas(db, getCacheKey(reg[i].tool))
                 /\ ~JSONParse(RedisGet(db, getCacheKey(reg[i].tool))).threw}),
     computed |-> Cardinality({i \in DOMAIN reg :
                     ~CachedEmbeddingFound(db, getCacheKey(reg[i].tool))})]

\* C38: the numbers a RedisCachedMemoryVectorBaseStore.indexTools pass
\* reports add up to the number of tools of the registry, and the hits
\* reported are the tools whose cached embedding was reused.
C38_ReportedNumbersConsistent ==
    (storeKind = "RedisCachedMemoryVectorBaseStore" /\ lastOp = "indexTools"
        /\ lastPass.result = "ok") =>
        LET reported == VerboseReport(lastPass.redisBefore, lastPass.registry)
        IN  /\ reported.hits + reported.computed = Len(lastPass.registry)
            /\ reported.hits = Len(lastPass.hits)

\* C39: in HNSWLibStore, MemoryVectorStore and MemoryVectorBaseStore, once
\* delete(key) has returned and until key is put or indexed again, get(key)
\* is null, list omits key and no search, with or without a query, returns
\* an entry for key.
C39_DeletedKeyIsGone ==
    \A key \in deleted :
        /\ get(toolMetadata, key) = Undefined
        /\ key \notin Range(list(toolMetadata))
        /\ (lastSearch # NoSearch /\ ~lastSearch.threw) =>
              \A i \in DOMAIN lastSearch.items : lastSearch.items[i].key # key

\* caller c has just called connect on a connected store, or disconnect on a
\* store that is not connected
CallsInVain(c) ==
    /\ callPc[c] = "idle"
    /\ callPc'[c] # "idle"
    /\ \/ callOp'[c] = "connect" /\ isConnected
       \/ callOp'[c] = "disconnect" /\ ~isConnected

\* C40: under every interleaving of calls on one store that starts
\* disconnected, at most one client is created and connected and every
\* operation runs on that client; connect on a connected store and disconnect
\* on a disconnected store do nothing.
C40_OneClient ==
    [][/\ clients' <= 1
       /\ \A c \in Callers : usedClient'[c] # 0 => usedClient'[c] = 1
       /\ \A c \in Callers :
             CallsInVain(c) =>
                /\ callPc'[c] = "done"
                /\ UNCHANGED <<redisClient, clients, connectedClients, isConnected>>]_vars

====
